---------------------------- MODULE Spec2Model ----------------------------
(***************************************************************************)
(* NPCSim voxel world core: chunk layout and indexing (internal/chunk),    *)
(* deterministic generation (internal/gen, internal/mathx) and the         *)
(* concurrent chunk store (internal/world).                                *)
(*                                                                         *)
(* Numbers: TLC integers are 32-bit signed.  A Go uint32 is therefore kept *)
(* as a pair <<hi, lo>> of 16-bit halves, a Go int32 as an integer in      *)
(* -2^31 .. 2^31-1 with explicit wrapping, and a Go float64 as a record    *)
(* [sgn, man, ex] with a multi-limb mantissa (value = +-man * 2^ex),       *)
(* rounded to 53 bits, ties to even, after every operation.                *)
(***************************************************************************)
EXTENDS Integers, Sequences, FiniteSets, TLC

VARIABLES
  \* --- the World (internal/world/world.go) and its callers ---
  wSeed,      \* World.seed
  chunks,     \* World.chunks: coordinate -> chunk reference (0 is nil)
  heap,       \* the Chunk objects allocated so far, by reference
  readers,    \* threads holding World.mu shared (RLock)
  writer,     \* thread holding World.mu exclusive (Lock), or 0
  waiting,    \* threads blocked in World.mu.Lock()
  pc,         \* per thread: the line it is about to execute
  arg,        \* per thread: parameter c of GetOrCreateChunk
  ch,         \* per thread: local variable ch of GetOrCreateChunk
  rb,         \* per thread: columns done by its running RebuildTopCache
  held,       \* per thread: the chunk reference its last call returned
  edit,       \* per thread: arguments of its running Set
  genCount,   \* per coordinate: calls of gen.GenerateChunk so far
  call,       \* per thread: what its current call observed and did
  returned,   \* per coordinate: the references returned for it so far
  calls,      \* calls of GetOrCreateChunk started
  edits,      \* calls of Set started
  \* --- one chunk under the accessors of internal/chunk ---
  cChunk,     \* the chunk
  cPrev,      \* the chunk before the last operation
  cOp,        \* the last operation and its arguments
  cSteps,     \* operations applied
  \* --- calls of gen.GenerateChunk ---
  gLog,       \* the calls made, in order: coordinate, seed, result, indices written
  \* --- Pack / Unpack on one local coordinate ---
  px, py, pz, \* the coordinate
  packed,     \* Pack(px, py, pz), once computed (-1 before)
  unpacked,   \* Unpack(packed), once computed (<<>> before)
  \* --- noise2D / terrainHeight on one world column ---
  nwx, nwz,   \* the world column
  nseed,      \* the seed
  noiseOut,   \* << cell, noise2D(nwx, nwz, nseed, cell), x0, z0 >>, once computed
  heightOut,  \* << terrainHeight(nwx, nwz, nseed) >>, once computed
  \* --- the /api/chunk handler of cmd/server, requests one after the other ---
  srvChunks,  \* World.chunks of the server: coordinate -> chunk
  reqQuery,   \* the query of the last request: parameter -> value (characters)
  reqCoord,   \* the coordinate the handler passed to GetOrCreateChunk
  respChunk,  \* the chunk GetOrCreateChunk returned to the handler
  respBody,   \* the response body written: its length and bytes
  nreq,       \* requests handled
  \* --- the viewer (cmd/server/web/app.js): fetchChunk ---
  chunkCache, \* Map chunkCache: key -> entry
  inflight,   \* Map inflight: key -> promise (its number in `promises`)
  promises,   \* the promises fetchChunk created: key, state, body length
  lastRet,    \* what the last fetchChunk call returned
  requestQueue \* the viewer's requestQueue: entries {cx, cz, pri}

worldVars == << wSeed, chunks, heap, readers, writer, waiting, pc, arg, ch, rb,
                held, edit, genCount, call, returned, calls, edits >>
chunkVars == << cChunk, cPrev, cOp, cSteps >>
genVars == << gLog >>
packVars == << px, py, pz, packed, unpacked >>
noiseVars == << nwx, nwz, nseed, noiseOut, heightOut >>
\* the machines added to the first four
apiVars == << srvChunks, reqQuery, reqCoord, respChunk, respBody, nreq >>
clientVars == << chunkCache, inflight, promises, lastRet, requestQueue >>
moreVars == << noiseVars, apiVars, clientVars >>
vars == << worldVars, chunkVars, genVars, packVars, moreVars >>

(***************************************************************************)
(* internal/chunk/chunk.go: constants                                      *)
(***************************************************************************)
CW == 32
CH == 32
CD == 32
shiftZ == 5
shiftY == 10
mask5 == 31
N == CW * CH * CD

(***************************************************************************)
(* internal/gen/pipeline.go: constants                                     *)
(***************************************************************************)
BlockAir == 0
BlockGrass == 1
BlockDirt == 2
BlockStone == 3
BlockWater == 4
seaLevel == 12

(***************************************************************************)
(* Machine integers.                                                       *)
(***************************************************************************)
RECURSIVE Pow2(_)
Pow2(n) == IF n = 0 THEN 1 ELSE 2 * Pow2(n - 1)

Pow16 == Pow2(16)
\* largest and smallest int32
MaxI32 == (Pow2(30) - 1) + Pow2(30)
MinI32 == (-MaxI32) - 1

\* Bitwise operators of Go (|, &, ^) on n-bit naturals.
RECURSIVE OrBits(_, _, _)
OrBits(a, b, n) ==
  IF n = 0 THEN 0
  ELSE (IF a % 2 = 1 \/ b % 2 = 1 THEN 1 ELSE 0) + 2 * OrBits(a \div 2, b \div 2, n - 1)

RECURSIVE AndBits(_, _, _)
AndBits(a, b, n) ==
  IF n = 0 THEN 0
  ELSE (IF a % 2 = 1 /\ b % 2 = 1 THEN 1 ELSE 0) + 2 * AndBits(a \div 2, b \div 2, n - 1)

RECURSIVE XorBits(_, _, _)
XorBits(a, b, n) ==
  IF n = 0 THEN 0
  ELSE ((a + b) % 2) + 2 * XorBits(a \div 2, b \div 2, n - 1)

\* uint16 operators: the conversion uint16(v), and <<, >> that drop the bits
\* shifted out of the 16-bit word.
U16(v) == v % Pow16
Shl16(v, k) == (v * Pow2(k)) % Pow16
Shr16(v, k) == v \div Pow2(k)
\* uint8(v)
U8(v) == v % 256

\* int32(v) for an integer v that TLC can hold: identity in range.  The
\* wrapping operators below never form an out-of-range intermediate.
\* a + b in int32 arithmetic (wraps modulo 2^32).
AddI32(a, b) ==
  IF a >= 0 /\ b >= 0
    THEN (IF a > MaxI32 - b THEN (a + MinI32) + (b + MinI32) ELSE a + b)
  ELSE IF a < 0 /\ b < 0
    THEN (IF a < MinI32 - b THEN (a - MinI32) + (b - MinI32) ELSE a + b)
  ELSE a + b

\* a - b in int32 arithmetic (wraps modulo 2^32).
SubI32(a, b) ==
  IF b = MinI32
    THEN (IF a >= 0 THEN a + MinI32 ELSE a - MinI32)
  ELSE AddI32(a, -b)

\* a * 32 in int32 arithmetic: the low 27 bits of a, shifted, as a signed word.
Mul32I32(a) ==
  IF a % Pow2(27) >= Pow2(26) THEN ((a % Pow2(27)) - Pow2(27)) * 32
  ELSE (a % Pow2(27)) * 32

\* Go's integer division truncates toward zero (here for a divisor b > 0).
QuoI32(a, b) ==
  IF a >= 0 \/ a % b = 0 THEN a \div b ELSE (a \div b) + 1

(***************************************************************************)
(* internal/chunk/chunk.go: Pack / Unpack / Idx / IdxFromPacked            *)
(***************************************************************************)
\* A faulty variant of Pack: the shifts of y and z exchanged.
PackSwapped(x, y, z) ==
  OrBits(OrBits(U16(x), Shl16(U16(z), shiftY), 16), Shl16(U16(y), shiftZ), 16)

Pack(x, y, z) ==
  OrBits(OrBits(U16(x), Shl16(U16(z), shiftZ), 16), Shl16(U16(y), shiftY), 16)

Unpack(p) ==
  << U8(AndBits(p, mask5, 16)),
     U8(AndBits(Shr16(p, shiftY), mask5, 16)),
     U8(AndBits(Shr16(p, shiftZ), mask5, 16)) >>

Idx(x, y, z) == Pack(x, y, z)

IdxFromPacked(p) == p

(***************************************************************************)
(* uint32 words as <<hi, lo>> (16-bit halves).                             *)
(***************************************************************************)
\* uint32(v) of an int32 v (two's complement).
U32OfI32(v) == << (v \div Pow16) % Pow16, v % Pow16 >>

U32Xor(a, b) == << XorBits(a[1], b[1], 16), XorBits(a[2], b[2], 16) >>

\* a >> k for 1 <= k <= 16
U32Shr(a, k) ==
  << a[1] \div Pow2(k), (a[1] % Pow2(k)) * Pow2(16 - k) + (a[2] \div Pow2(k)) >>

\* The 32-bit product of two 16-bit halves, as <<hi, lo>>, from 8-bit pieces.
Mul16(x, y) ==
  LET x1 == x \div 256
      x0 == x % 256
      y1 == y \div 256
      y0 == y % 256
      mid == x1 * y0 + x0 * y1
      low == x0 * y0 + (mid % 256) * 256
  IN  << (x1 * y1 + (mid \div 256) + (low \div Pow16)) % Pow16, low % Pow16 >>

\* a * b in uint32 arithmetic (wraps modulo 2^32).
U32Mul(a, b) ==
  LET ll == Mul16(a[2], b[2])
      hl == Mul16(a[1], b[2])
      lh == Mul16(a[2], b[1])
  IN  << (ll[1] + hl[2] + lh[2]) % Pow16, ll[2] >>

(***************************************************************************)
(* internal/mathx/hash.go                                                  *)
(***************************************************************************)
\* 0x7feb352d, 0x846ca68b, 0x9e3779b1, 0x85ebca6b, 0xc2b2ae35
HashMulA == << 32747, 13613 >>
HashMulB == << 33900, 42635 >>
HashMulX == << 40503, 31153 >>
HashMulY == << 34283, 51819 >>
HashMulZ == << 49842, 44597 >>

\* x ^= x >> k
XorShr(x, k) == U32Xor(x, U32Shr(x, k))

Hash32(x) ==
  XorShr(U32Mul(XorShr(U32Mul(XorShr(x, 16), HashMulA), 15), HashMulB), 16)

Hash3(seed, x, y, z) ==
  Hash32(U32Xor(U32Xor(U32Xor(seed, U32Mul(U32OfI32(x), HashMulX)),
                       U32Mul(U32OfI32(y), HashMulY)),
                U32Mul(U32OfI32(z), HashMulZ)))

Hash2(seed, x, z) ==
  Hash32(U32Xor(U32Xor(seed, U32Mul(U32OfI32(x), HashMulX)),
                U32Mul(U32OfI32(z), HashMulY)))

(***************************************************************************)
(* Natural numbers of any size: little-endian sequences of 15-bit limbs    *)
(* with no high zero limb (zero is <<>>).  They carry float64 mantissas    *)
(* and the exact products and sums that are rounded back to 53 bits.       *)
(***************************************************************************)
Limb == Pow2(15)

RECURSIVE BStrip(_)
BStrip(a) ==
  IF a = <<>> THEN <<>>
  ELSE IF a[Len(a)] = 0 THEN BStrip(SubSeq(a, 1, Len(a) - 1))
  ELSE a

\* a natural below 2^31 as limbs, and back
BOfNat(n) == BStrip(<< n % Limb, (n \div Limb) % Limb, n \div (Limb * Limb) >>)

BLimb(a, i) == IF i <= Len(a) THEN a[i] ELSE 0

BToNat(a) == BLimb(a, 1) + BLimb(a, 2) * Limb + BLimb(a, 3) * Limb * Limb

RECURSIVE BAddC(_, _, _, _)
BAddC(a, b, i, c) ==
  IF i > Len(a) /\ i > Len(b)
    THEN (IF c = 0 THEN <<>> ELSE << c >>)
  ELSE LET t == BLimb(a, i) + BLimb(b, i) + c
       IN  << t % Limb >> \o BAddC(a, b, i + 1, t \div Limb)

BAdd(a, b) == BAddC(a, b, 1, 0)

\* a - b for a >= b
RECURSIVE BSubC(_, _, _, _)
BSubC(a, b, i, c) ==
  IF i > Len(a) THEN <<>>
  ELSE LET t == (a[i] - BLimb(b, i)) - c
       IN  << t % Limb >> \o BSubC(a, b, i + 1, IF t < 0 THEN 1 ELSE 0)

BSub(a, b) == BStrip(BSubC(a, b, 1, 0))

\* -1, 0, 1 as a < b, a = b, a > b
RECURSIVE BCmpFrom(_, _, _)
BCmpFrom(a, b, i) ==
  IF i = 0 THEN 0
  ELSE IF a[i] < b[i] THEN -1
  ELSE IF a[i] > b[i] THEN 1
  ELSE BCmpFrom(a, b, i - 1)

BCmp(a, b) ==
  IF Len(a) < Len(b) THEN -1
  ELSE IF Len(a) > Len(b) THEN 1
  ELSE BCmpFrom(a, b, Len(a))

\* a * k for a limb k
RECURSIVE BMulSmallC(_, _, _, _)
BMulSmallC(a, k, i, c) ==
  IF i > Len(a)
    THEN (IF c = 0 THEN <<>> ELSE << c >>)
  ELSE LET t == a[i] * k + c
       IN  << t % Limb >> \o BMulSmallC(a, k, i + 1, t \div Limb)

BMulSmall(a, k) == IF k = 0 THEN <<>> ELSE BMulSmallC(a, k, 1, 0)

BZeros(q) == [i \in 1..q |-> 0]

\* a * 2^(15 q)
BShlLimbs(a, q) == IF a = <<>> THEN <<>> ELSE BZeros(q) \o a

RECURSIVE BMulFrom(_, _, _)
BMulFrom(a, b, i) ==
  IF i > Len(a) THEN <<>>
  ELSE BAdd(BShlLimbs(BMulSmall(b, a[i]), i - 1), BMulFrom(a, b, i + 1))

BMul(a, b) == BMulFrom(a, b, 1)

\* a * 2^k
BShl(a, k) == BShlLimbs(BMulSmall(a, Pow2(k % 15)), k \div 15)

\* floor(a / 2^k)
BShr(a, k) ==
  LET q == k \div 15
      r == k % 15
      n == Len(a) - q
  IN  IF n <= 0 THEN <<>>
      ELSE BStrip([i \in 1..n |->
             (a[q + i] \div Pow2(r)) + (BLimb(a, q + i + 1) % Pow2(r)) * Pow2(15 - r)])

\* a mod 2^k
BLowBits(a, k) ==
  LET q == k \div 15
      r == k % 15
  IN  IF Len(a) <= q THEN a
      ELSE BStrip(SubSeq(a, 1, q) \o << a[q + 1] % Pow2(r) >>)

RECURSIVE BitLen(_)
BitLen(n) == IF n = 0 THEN 0 ELSE 1 + BitLen(n \div 2)

BBitLen(a) == IF a = <<>> THEN 0 ELSE 15 * (Len(a) - 1) + BitLen(a[Len(a)])

BIsOdd(a) == a # <<>> /\ a[1] % 2 = 1

(***************************************************************************)
(* float64: [sgn, man, ex] is (-1)^sgn * man * 2^ex, man a limb sequence   *)
(* of at most 53 bits (54 only for the power of two a round-up carries     *)
(* into).  Every operation computes the exact result and rounds it to      *)
(* nearest, ties to even, as IEEE 754 binary64 does; the code's values     *)
(* stay far from overflow, underflow, infinities and NaN.  Operations are  *)
(* not fused (the amd64 build).                                            *)
(***************************************************************************)
FMk(sg, m, e) == [sgn |-> sg, man |-> m, ex |-> e]

\* round an exact value to 53 significant bits
FRnd(sg, m, e) ==
  LET n == BBitLen(m)
  IN  IF n <= 53 THEN FMk(IF m = <<>> THEN 0 ELSE sg, m, IF m = <<>> THEN 0 ELSE e)
      ELSE LET k == n - 53
               q == BShr(m, k)
               r == BLowBits(m, k)
               c == BCmp(r, BShl(<< 1 >>, k - 1))
               up == c > 0 \/ (c = 0 /\ BIsOdd(q))
           IN  FMk(sg, IF up THEN BAdd(q, << 1 >>) ELSE q, e + k)

\* float64(i) for an integer |i| < 2^31
FOfInt(i) == FMk(IF i < 0 THEN 1 ELSE 0, BOfNat(IF i < 0 THEN -i ELSE i), 0)

FNeg(a) == FMk(IF a.man = <<>> THEN 0 ELSE 1 - a.sgn, a.man, a.ex)

FMul(a, b) ==
  FRnd(IF a.sgn = b.sgn THEN 0 ELSE 1, BMul(a.man, b.man), a.ex + b.ex)

FAdd(a, b) ==
  LET e == IF a.ex < b.ex THEN a.ex ELSE b.ex
      ma == BShl(a.man, a.ex - e)
      mb == BShl(b.man, b.ex - e)
      c == BCmp(ma, mb)
  IN  IF a.man = <<>> THEN b
      ELSE IF b.man = <<>> THEN a
      ELSE IF a.sgn = b.sgn THEN FRnd(a.sgn, BAdd(ma, mb), e)
      ELSE IF c = 0 THEN FMk(0, <<>>, 0)
      ELSE IF c > 0 THEN FRnd(a.sgn, BSub(ma, mb), e)
      ELSE FRnd(b.sgn, BSub(mb, ma), e)

FSub(a, b) == FAdd(a, FNeg(b))

\* a / b for a divisor b that is a power of two (every divisor of the code
\* is: float64(cell) for cell 32, 16, 8 and float64(1<<24)): exact.
FDivPow2(a, b) ==
  IF a.man = <<>> THEN a
  ELSE FMk(IF a.sgn = b.sgn THEN 0 ELSE 1, a.man, a.ex - (b.ex + (BBitLen(b.man) - 1)))

\* int32(math.Round(a)): round half away from zero, then the conversion
\* (exact: the rounded value is an integer of magnitude below 2^31).
FRoundToI32(a) ==
  LET q == IF a.ex >= 0 THEN BShl(a.man, a.ex)
           ELSE LET fl == BShr(a.man, -a.ex)
                    r == BLowBits(a.man, -a.ex)
                IN  IF BCmp(r, BShl(<< 1 >>, (-a.ex) - 1)) >= 0
                      THEN BAdd(fl, << 1 >>) ELSE fl
  IN  IF a.sgn = 1 THEN -BToNat(q) ELSE BToNat(q)

\* the float64 literals 0.55, 0.30, 0.15 (nearest binary64 to the decimal)
F055 == FMk(0, <<6554, 13107, 26214, 140>>, -53)
F030 == FMk(0, <<13107, 26214, 19660, 153>>, -54)
F015 == FMk(0, <<13107, 26214, 19660, 153>>, -55)

(***************************************************************************)
(* internal/gen/noise.go                                                   *)
(***************************************************************************)
lerp(a, b, t) == FAdd(a, FMul(FSub(b, a), t))

fade(t) ==
  FMul(FMul(FMul(t, t), t),
       FAdd(FMul(t, FSub(FMul(t, FOfInt(6)), FOfInt(15))), FOfInt(10)))

\* float64(h) for a uint32 h below 2^24
FOfU24(h) == FOfInt(h[1] * Pow16 + h[2])

hash01(seed, x, z) ==
  FDivPow2(FOfU24(U32Shr(Hash2(seed, x, z), 8)), FOfInt(Pow2(24)))

\* noise2D from the cell origin (x0, z0) on: the four corner values, the
\* faded fractions and the bilinear blend.
noiseBlend(v00, v10, v01, v11, u, v) ==
  lerp(lerp(v00, v10, u), lerp(v01, v11, u), v)

noiseCell(wx, wz, seed, cell, x0, z0) ==
  noiseBlend(hash01(seed, x0, z0),
             hash01(seed, AddI32(x0, cell), z0),
             hash01(seed, x0, AddI32(z0, cell)),
             hash01(seed, AddI32(x0, cell), AddI32(z0, cell)),
             fade(FDivPow2(FOfInt(SubI32(wx, x0)), FOfInt(cell))),
             fade(FDivPow2(FOfInt(SubI32(wz, z0)), FOfInt(cell))))

\* lines 14-15, "(w / cell) * cell": the origin of the lattice cell on one axis
cellOrigin(w, cell) == QuoI32(w, cell) * cell

noise2D(wx, wz, seed, cell) ==
  noiseCell(wx, wz, seed, cell, cellOrigin(wx, cell), cellOrigin(wz, cell))

(***************************************************************************)
(* internal/gen/pipeline.go: terrainHeight / clampI32                      *)
(***************************************************************************)
\* A faulty variant of clampI32: the lower limit is not applied.
clampHighOnly(v, lo, hi) ==
  IF v > hi THEN hi
  ELSE v

clampI32(v, lo, hi) ==
  IF v < lo THEN lo
  ELSE IF v > hi THEN hi
  ELSE v

\* seed ^ 0xA53A, seed ^ 0xC3E1
SeedOct1(seed) == U32Xor(seed, << 0, 42298 >>)
SeedOct2(seed) == U32Xor(seed, << 0, 50145 >>)

\* n0*0.55 + n1*0.30 + n2*0.15, summed left to right
terrainNoise(wx, wz, seed) ==
  FAdd(FAdd(FMul(noise2D(wx, wz, seed, 32), F055),
            FMul(noise2D(wx, wz, SeedOct1(seed), 16), F030)),
       FMul(noise2D(wx, wz, SeedOct2(seed), 8), F015))

terrainHeight(wx, wz, seed) ==
  clampI32(FRoundToI32(FAdd(FOfInt(6), FMul(terrainNoise(wx, wz, seed), FOfInt(20)))),
           1, 30)

(***************************************************************************)
(* Bounds of the model.  Columns of a chunk are independent of each other  *)
(* in every operation (generation, rebuild, edits), so the model keeps the *)
(* columns x in 0..MaxX, z in 0..MaxZ of each chunk, at full height CH.    *)
(***************************************************************************)
MaxX == 1
MaxZ == 0

WinX == 0..MaxX
WinZ == 0..MaxZ
Heights == 0..(CH - 1)

\* the columns in the order of the loops "for z ... for x ..."
ColOrder == [k \in 1..((MaxX + 1) * (MaxZ + 1)) |->
               << (k - 1) % (MaxX + 1), (k - 1) \div (MaxX + 1) >>]
NCols == Len(ColOrder)

ColOf(x, z) == x + z * CW
\* chunk.Idx and chunk.Unpack on the voxels of the window, tabulated
IdxTable == [x \in WinX |-> [z \in WinZ |-> [y \in Heights |-> Idx(x, y, z)]]]
IdxW(x, y, z) == IdxTable[x][z][y]
VoxIdx == { IdxW(x, y, z) : x \in WinX, y \in Heights, z \in WinZ }
UnpackTable == [i \in VoxIdx |-> Unpack(i)]
ColIdx == { ColOf(x, z) : x \in WinX, z \in WinZ }

Coord(x, y, z) == [X |-> x, Y |-> y, Z |-> z]

\* process-wide seed of cmd/server/main.go, as a uint32
worldSeed == << 0, 1337 >>
OtherSeed == << 48879, 4919 >>
Seeds == { worldSeed, OtherSeed }

\* Chunk coordinates given to the pipeline: at the origin and away from it,
\* below, at and above the terrain band, and at the edge of the int32 range
\* of 32*Y.
LowestY == -Pow2(26)
\* The ends of the coordinate range: the last chunks whose world coordinates
\* are int32 values, a chunk whose base height 32*Y is 2^31, and a chunk at
\* the ends of the int32 range of X, Y and Z.
HighestC == Pow2(26) - 1
EdgeCoords ==
  { Coord(HighestC, HighestC, LowestY), Coord(0, Pow2(26), 0), Coord(MaxI32, MinI32, MinI32) }
GenCoords ==
  { Coord(x, y, 0) : x \in {0, 3, -3}, y \in {0, 1, -1, LowestY} } \cup EdgeCoords
\* the (coordinate, seed) pairs given to the pipeline
GenInputs ==
  { << c, worldSeed >> : c \in GenCoords } \cup { << Coord(0, 0, 0), OtherSeed >> }

(***************************************************************************)
(* internal/chunk/chunk.go: New, RebuildTopCache                           *)
(***************************************************************************)
New(c) ==
  [ C |-> c,
    Type |-> [i \in VoxIdx |-> 0],
    Meta |-> [i \in VoxIdx |-> 0],
    TopY |-> [col \in ColIdx |-> 0],
    TopType |-> [col \in ColIdx |-> 0],
    TopValid |-> FALSE,
    Props |-> << >>,
    BlockEntity |-> << >> ]

\* A faulty variant of the scan: topY starts at CH - 1 and is not reset
\* when no voxel is found
RECURSIVE ScanEmptyAtTop(_, _, _, _)
ScanEmptyAtTop(type, x, z, y) ==
  IF type[IdxW(U8(x), U8(y), U8(z))] # 0
    THEN << U8(y), type[IdxW(U8(x), U8(y), U8(z))] >>
  ELSE IF y = 0 THEN << CH - 1, 0 >>
  ELSE ScanEmptyAtTop(type, x, z, y - 1)

\* A faulty variant of the scan: "for y := CH - 2; y >= 0; y--"
RECURSIVE ScanBelowTop(_, _, _, _)
ScanBelowTop(type, x, z, y) ==
  IF y = CH - 1 THEN ScanBelowTop(type, x, z, CH - 2)
  ELSE IF type[IdxW(U8(x), U8(y), U8(z))] # 0
    THEN << U8(y), type[IdxW(U8(x), U8(y), U8(z))] >>
  ELSE IF y = 0 THEN << 0, 0 >>
  ELSE ScanBelowTop(type, x, z, y - 1)

\* the scan "for y := CH - 1; y >= 0; y--" of one column: <<topY, topT>>
RECURSIVE ScanDown(_, _, _, _)
ScanDown(type, x, z, y) ==
  LET t == type[IdxW(U8(x), U8(y), U8(z))]
  IN  IF t # 0 THEN << U8(y), t >>
      ELSE IF y = 0 THEN << 0, 0 >>
      ELSE ScanDown(type, x, z, y - 1)

\* A faulty variant of the stores: topY and topT stored in each other's array.
StoreTopSwapped(c, col, top) == [c EXCEPT !.TopY[col] = top[2], !.TopType[col] = top[1]]

\* the two stores that end the body of the column loops
StoreTop(c, col, top) == [c EXCEPT !.TopY[col] = top[1], !.TopType[col] = top[2]]

\* A faulty variant of the body: the metadata of the voxel found is reset.
RebuildColResetMeta(c, x, z) ==
  [StoreTop(c, ColOf(x, z), ScanDown(c.Type, x, z, CH - 1))
     EXCEPT !.Meta[IdxW(x, ScanDown(c.Type, x, z, CH - 1)[1], z)] = 0]

\* the body of the column loops for one column (x, z)
RebuildCol(c, x, z) == StoreTop(c, ColOf(x, z), ScanDown(c.Type, x, z, CH - 1))

\* local x and z of a column index col = x + z*CW
ColX(col) == col % CW
ColZ(col) == col \div CW

\* the column loops from the k-th column of the loop order on
RECURSIVE RebuildFrom(_, _)
RebuildFrom(c, k) ==
  IF k > NCols THEN c
  ELSE RebuildFrom(RebuildCol(c, ColOrder[k][1], ColOrder[k][2]), k + 1)

\* the column loops, then c.TopValid = true
RebuildTopCache(c) == [RebuildFrom(c, 1) EXCEPT !.TopValid = TRUE]

(***************************************************************************)
(* internal/chunk/access.go                                                *)
(***************************************************************************)
GetTypeIdx(c, idx) == c.Type[idx]
GetMetaIdx(c, idx) == c.Meta[idx]

\* the single stores of the setters
StoreType(c, idx, t) == [c EXCEPT !.Type[idx] = t]
StoreMeta(c, idx, m) == [c EXCEPT !.Meta[idx] = m]
StoreTopValid(c, b) == [c EXCEPT !.TopValid = b]

SetTypeIdx(c, idx, t) == StoreTopValid(StoreType(c, idx, t), FALSE)

\* A faulty variant of SetMetaIdx: the flag is cleared as in SetTypeIdx.
SetMetaIdxInvalidating(c, idx, m) == StoreTopValid(StoreMeta(c, idx, m), FALSE)

SetMetaIdx(c, idx, m) == StoreMeta(c, idx, m)

Get(c, p) == << c.Type[IdxFromPacked(p)], c.Meta[IdxFromPacked(p)] >>

\* A faulty variant of Set: t and m stored in each other's array.
SetSwapped(c, p, t, m) ==
  StoreTopValid(StoreMeta(StoreType(c, IdxFromPacked(p), m), IdxFromPacked(p), t), FALSE)

\* A faulty variant of Set: the flag is cleared only when the type changes.
SetIfChanged(c, p, t, m) ==
  IF c.Type[IdxFromPacked(p)] = t THEN StoreMeta(c, IdxFromPacked(p), m)
  ELSE StoreTopValid(StoreMeta(StoreType(c, IdxFromPacked(p), t), IdxFromPacked(p), m),
                     FALSE)

Set(c, p, t, m) ==
  LET i == IdxFromPacked(p)
  IN  StoreTopValid(StoreMeta(StoreType(c, i, t), i, m), FALSE)

(***************************************************************************)
(* internal/gen/pipeline.go: GenerateChunk                                 *)
(***************************************************************************)
\* terrainHeight over the world columns the model generates, computed once
HeightKeys ==
  { << AddI32(Mul32I32(c.X), x), AddI32(Mul32I32(c.Z), z), s >> :
      c \in GenCoords \cup { Coord(0, 0, 3) }, x \in WinX, z \in WinZ, s \in Seeds }
HeightTable == [k \in HeightKeys |-> terrainHeight(k[1], k[2], k[3])]
HeightAt(wx, wz, seed) ==
  IF << wx, wz, seed >> \in HeightKeys THEN HeightTable[<< wx, wz, seed >>]
  ELSE terrainHeight(wx, wz, seed)

\* A faulty variant of pass 1: no case for depth 0, the surface is dirt.
TerrainTypeNoGrass(h, gy) ==
  IF gy > h THEN BlockAir
  ELSE IF SubI32(h, gy) <= 3 THEN BlockDirt
  ELSE BlockStone

\* Pass 1 for one voxel: the type written at local height y
TerrainType(h, gy) ==
  IF gy > h THEN BlockAir
  ELSE LET depth == SubI32(h, gy)
       IN  IF depth = 0 THEN BlockGrass
           ELSE IF depth <= 3 THEN BlockDirt
           ELSE BlockStone

\* A faulty variant of pass 1: the local height y is compared with h, not
\* the global height baseY + y
TerrainLoopLocal(baseY, h) == [y \in Heights |-> TerrainType(h, y)]

\* Pass 1 for one column, "for y := uint8(0); y < CH; y++": the type
\* written at each local height y
TerrainLoop(baseY, h) == [y \in Heights |-> TerrainType(h, AddI32(baseY, y))]

\* A faulty variant of pass 2: "for gy := h + 1; gy < seaLevel; gy++"
RECURSIVE WaterLoopBelowSea(_, _, _)
WaterLoopBelowSea(col, baseY, gy) ==
  IF gy >= seaLevel THEN col
  ELSE IF gy < baseY \/ gy >= AddI32(baseY, CH)
    THEN WaterLoopBelowSea(col, baseY, gy + 1)
  ELSE WaterLoopBelowSea([col EXCEPT ![U8(SubI32(gy, baseY))] = BlockWater], baseY, gy + 1)

\* Pass 2 for one column: "for gy := h + 1; gy <= seaLevel; gy++"
RECURSIVE WaterLoop(_, _, _)
WaterLoop(col, baseY, gy) ==
  IF gy > seaLevel THEN col
  ELSE IF gy < baseY \/ gy >= AddI32(baseY, CH)
    THEN WaterLoop(col, baseY, gy + 1)
  ELSE WaterLoop([col EXCEPT ![U8(SubI32(gy, baseY))] = BlockWater], baseY, gy + 1)

\* pass 2 with the water level at height top
RECURSIVE WaterLoopTo(_, _, _, _)
WaterLoopTo(col, baseY, gy, top) ==
  IF gy > top THEN col
  ELSE IF gy < baseY \/ gy >= AddI32(baseY, CH)
    THEN WaterLoopTo(col, baseY, gy + 1, top)
  ELSE WaterLoopTo([col EXCEPT ![U8(SubI32(gy, baseY))] = BlockWater], baseY, gy + 1, top)

\* A faulty variant of pass 2: the water level taken as 20, not seaLevel.
ColumnPassesHighSea(baseY, h) ==
  IF h < 20 THEN WaterLoopTo(TerrainLoop(baseY, h), baseY, h + 1, 20)
  ELSE TerrainLoop(baseY, h)

\* both passes for the column (x, z): the types of its voxels by height
ColumnPasses(baseY, h) ==
  IF h < seaLevel THEN WaterLoop(TerrainLoop(baseY, h), baseY, h + 1)
  ELSE TerrainLoop(baseY, h)

\* chunk.Idx(x, y, z), from the table for the heights the table has
IdxAt(x, y, z) == IF y \in Heights THEN IdxW(x, y, z) ELSE Idx(x, y, z)

\* the array indices "idx := chunk.Idx(x, y, z)" of pass 1 for column (x, z)
TerrainIdx(x, z) == { IdxAt(x, y, z) : y \in Heights }

\* A faulty variant of pass 2: no test that gy falls inside the chunk
RECURSIVE WaterIdxUnguarded(_, _, _, _)
WaterIdxUnguarded(x, z, baseY, gy) ==
  IF gy > seaLevel THEN {}
  ELSE { IdxAt(x, U8(SubI32(gy, baseY)), z) } \cup WaterIdxUnguarded(x, z, baseY, gy + 1)

\* the array indices "idx := chunk.Idx(x, y, z)" of pass 2 for column
\* (x, z), "for gy := h + 1; gy <= seaLevel; gy++"
RECURSIVE WaterIdx(_, _, _, _)
WaterIdx(x, z, baseY, gy) ==
  IF gy > seaLevel THEN {}
  ELSE IF gy < baseY \/ gy >= AddI32(baseY, CH) THEN WaterIdx(x, z, baseY, gy + 1)
  ELSE { IdxAt(x, U8(SubI32(gy, baseY)), z) } \cup WaterIdx(x, z, baseY, gy + 1)

\* the array indices of both passes for column (x, z) of height h
ColumnIdx(x, z, baseY, h) ==
  TerrainIdx(x, z) \cup (IF h < seaLevel THEN WaterIdx(x, z, baseY, h + 1) ELSE {})

\* baseY := int32(coord.Y) * chunk.CH
BaseY(coord) == Mul32I32(coord.Y)

\* every index into ch.Type that GenerateChunk(coord, ctx) computes
GenIndices(coord, ctx) ==
  UNION { ColumnIdx(x, z, BaseY(coord),
                    HeightAt(AddI32(Mul32I32(coord.X), x), AddI32(Mul32I32(coord.Z), z),
                             ctx.Seed)) : x \in WinX, z \in WinZ }

GenColumn(coord, ctx, x, z) ==
  ColumnPasses(Mul32I32(coord.Y),
               HeightAt(AddI32(Mul32I32(coord.X), x), AddI32(Mul32I32(coord.Z), z),
                        ctx.Seed))

\* A faulty variant of the stores of the passes: the type goes into Meta too.
WriteColumnsAndMeta(fresh, cols) ==
  [fresh EXCEPT
     !.Type = [i \in VoxIdx |->
                 cols[ColOf(UnpackTable[i][1], UnpackTable[i][3])][UnpackTable[i][2]]],
     !.Meta = [i \in VoxIdx |->
                 cols[ColOf(UnpackTable[i][1], UnpackTable[i][3])][UnpackTable[i][2]]]]

\* The column loops write every voxel of the chunk, each column its own
\* voxels: Type[Idx(x, y, z)] is what the body for column (x, z) wrote at y.
WriteColumns(fresh, cols) ==
  [fresh EXCEPT !.Type =
     [i \in VoxIdx |->
        cols[ColOf(UnpackTable[i][1], UnpackTable[i][3])][UnpackTable[i][2]]]]

GenerateChunk(coord, ctx) ==
  RebuildTopCache(
    WriteColumns(New(coord),
                 [col \in ColIdx |-> GenColumn(coord, ctx, ColX(col), ColZ(col))]))

(***************************************************************************)
(* Inputs of the edits: packed positions below, at and above the generated *)
(* surface of the chunks at Y = 0 (heights 12 and 16 are surfaces there),  *)
(* block types air and stone, one metadata value.                          *)
(***************************************************************************)
EditPos == { Pack(0, 5, 0), Pack(0, 12, 0), Pack(0, 16, 0), Pack(0, 20, 0), Pack(1, 16, 0) }
EditTypes == { BlockAir, BlockStone }
\* the positions the callers of the World edit: column (0, 0), below the
\* surface of both chunks, and at height 16 (the surface of one, above the
\* surface of the other)
WorldEditPos == { Pack(0, 5, 0), Pack(0, 16, 0) }
EditMetas == { 7 }

(***************************************************************************)
(* Pack / Unpack on one local coordinate (all of 0..31 on each axis).      *)
(***************************************************************************)
PackIdle == px = 0 /\ py = 0 /\ pz = 0 /\ packed = -1 /\ unpacked = << >>

PackInit ==
  /\ px \in 0..(CW - 1)
  /\ py \in 0..(CH - 1)
  /\ pz \in 0..(CD - 1)
  /\ packed = -1
  /\ unpacked = << >>

\* any uint8 on each axis, in range or not
AnyU8 == { 0, 1, 31, 32, 33, 63, 64, 255 }
PackAnyInit ==
  /\ px \in AnyU8
  /\ py \in AnyU8
  /\ pz \in AnyU8
  /\ packed = -1
  /\ unpacked = << >>

DoPack ==
  /\ packed = -1
  /\ packed' = Pack(px, py, pz)
  /\ UNCHANGED << px, py, pz, unpacked, worldVars, chunkVars, genVars, moreVars >>

DoUnpack ==
  /\ packed # -1
  /\ unpacked = << >>
  /\ unpacked' = Unpack(packed)
  /\ UNCHANGED << px, py, pz, packed, worldVars, chunkVars, genVars, moreVars >>

PackNext == DoPack \/ DoUnpack

(***************************************************************************)
(* One chunk under the accessors, applied one after the other.             *)
(***************************************************************************)
MaxChunkOps == 3

ChunkIdle ==
  /\ cChunk = New(Coord(0, 0, 0))
  /\ cPrev = cChunk
  /\ cOp = [name |-> "none"]
  /\ cSteps = 0

\* the chunk as chunk.New or as gen.GenerateChunk made it
ChunkInit ==
  /\ \/ cChunk = New(Coord(0, 0, 0)) /\ cOp = [name |-> "New"]
     \/ /\ cChunk = GenerateChunk(Coord(0, 0, 0), [Seed |-> worldSeed])
        /\ cOp = [name |-> "GenerateChunk"]
  /\ cPrev = cChunk
  /\ cSteps = 0

ChunkStep(op, next) ==
  /\ cSteps < MaxChunkOps
  /\ cSteps' = cSteps + 1
  /\ cPrev' = cChunk
  /\ cOp' = op
  /\ cChunk' = next
  /\ UNCHANGED << worldVars, genVars, packVars, moreVars >>

CSet ==
  \E p \in EditPos, t \in EditTypes, m \in EditMetas :
    ChunkStep([name |-> "Set", p |-> p, t |-> t, m |-> m], Set(cChunk, p, t, m))

CSetTypeIdx ==
  \E p \in EditPos, t \in EditTypes :
    ChunkStep([name |-> "SetTypeIdx", idx |-> IdxFromPacked(p), t |-> t],
              SetTypeIdx(cChunk, IdxFromPacked(p), t))

CSetMetaIdx ==
  \E p \in EditPos, m \in EditMetas :
    ChunkStep([name |-> "SetMetaIdx", idx |-> IdxFromPacked(p), m |-> m],
              SetMetaIdx(cChunk, IdxFromPacked(p), m))

CRebuildTopCache ==
  ChunkStep([name |-> "RebuildTopCache"], RebuildTopCache(cChunk))

ChunkNext == CSet \/ CSetTypeIdx \/ CSetMetaIdx \/ CRebuildTopCache

(***************************************************************************)
(* Calls of gen.GenerateChunk, in any order, any coordinate and seed.      *)
(***************************************************************************)
MaxGens == 2

GenIdle == gLog = << >>

GenInit == gLog = << >>

GenCall ==
  \E in \in GenInputs :
    /\ Len(gLog) < MaxGens
    /\ gLog' = Append(gLog, [coord |-> in[1], seed |-> in[2],
                             chunk |-> GenerateChunk(in[1], [Seed |-> in[2]]),
                             idx |-> GenIndices(in[1], [Seed |-> in[2]])])
    /\ UNCHANGED << worldVars, chunkVars, packVars, moreVars >>

GenNext == GenCall

(***************************************************************************)
(* noise2D and terrainHeight on one world column: at the origin, inside    *)
(* and on the edge of a lattice cell, at negative coordinates, and at both *)
(* ends of the int32 range.                                                *)
(***************************************************************************)
NoiseXs == { 0, 5, 31, 32, -1, -31, -32, -95, MaxI32, MinI32 }
NoiseZs == { 0, -7, MaxI32 }
Cells == { 32, 16, 8 }

NoiseIdle ==
  /\ nwx = 0 /\ nwz = 0 /\ nseed = worldSeed
  /\ noiseOut = << >> /\ heightOut = << >>

NoiseInit ==
  /\ nwx \in NoiseXs
  /\ nwz \in NoiseZs
  /\ nseed \in Seeds
  /\ noiseOut = << >>
  /\ heightOut = << >>

NoiseCall ==
  \E cell \in Cells :
    /\ noiseOut = << >>
    /\ noiseOut' = << cell, noise2D(nwx, nwz, nseed, cell),
                      cellOrigin(nwx, cell), cellOrigin(nwz, cell) >>
    /\ UNCHANGED << nwx, nwz, nseed, heightOut, worldVars, chunkVars, genVars, packVars,
                    apiVars, clientVars >>

HeightCall ==
  /\ heightOut = << >>
  /\ heightOut' = << terrainHeight(nwx, nwz, nseed) >>
  /\ UNCHANGED << nwx, nwz, nseed, noiseOut, worldVars, chunkVars, genVars, packVars,
                  apiVars, clientVars >>

NoiseNext == NoiseCall \/ HeightCall

(***************************************************************************)
(* cmd/server/main.go: the /api/chunk handler, one request after the other *)
(* (the server never edits a chunk, so a stored chunk never changes and a  *)
(* handler reads what GetOrCreateChunk returned to it).  A parameter value *)
(* is a sequence of characters.                                            *)
(***************************************************************************)
MaxRequests == 2

DigitVal ==
  [c \in {"0", "1", "2", "3", "4", "5", "6", "7", "8", "9"} |->
     CASE c = "0" -> 0 [] c = "1" -> 1 [] c = "2" -> 2 [] c = "3" -> 3 [] c = "4" -> 4
       [] c = "5" -> 5 [] c = "6" -> 6 [] c = "7" -> 7 [] c = "8" -> 8 [] c = "9" -> 9]

\* 2^31 and 2^32 - 1, as limbs
BPow31 == BShl(<< 1 >>, 31)
BMaxU32 == BSub(BShl(<< 1 >>, 32), << 1 >>)

\* strconv.ParseUint(s, 10, 32) from the i-th character on, n the value of
\* the digits before it: the loop stops at the first character that is not
\* a digit (syntax error) and at the first digit that takes the value
\* above 2^32 - 1 (range error, value 2^32 - 1)
RECURSIVE ParseUintFrom(_, _, _)
ParseUintFrom(s, i, n) ==
  IF i > Len(s) THEN [val |-> n, err |-> "nil"]
  ELSE IF s[i] \notin DOMAIN DigitVal THEN [val |-> << >>, err |-> "syntax"]
  ELSE IF BCmp(BAdd(BMulSmall(n, 10), BOfNat(DigitVal[s[i]])), BMaxU32) > 0
    THEN [val |-> BMaxU32, err |-> "range"]
  ELSE ParseUintFrom(s, i + 1, BAdd(BMulSmall(n, 10), BOfNat(DigitVal[s[i]])))

ParseUint(s) ==
  IF s = << >> THEN [val |-> << >>, err |-> "syntax"]
  ELSE ParseUintFrom(s, 1, << >>)

\* the int64 of a sign and a magnitude of at most 2^31
SignedOf(neg, un) ==
  IF ~neg THEN BToNat(un)
  ELSE IF un = BPow31 THEN MinI32
  ELSE -BToNat(un)

\* ParseInt after the sign: un is the result of ParseUint on the rest
ParseIntSigned(neg, un) ==
  IF un.err = "syntax" THEN [val |-> 0, err |-> "syntax"]
  ELSE IF ~neg /\ BCmp(un.val, BPow31) >= 0 THEN [val |-> MaxI32, err |-> "range"]
  ELSE IF neg /\ BCmp(un.val, BPow31) > 0 THEN [val |-> MinI32, err |-> "range"]
  ELSE [val |-> SignedOf(neg, un.val), err |-> "nil"]

\* strconv.ParseInt(s, 10, 32): value and error
ParseInt(s) ==
  IF s = << >> THEN [val |-> 0, err |-> "syntax"]
  ELSE IF s[1] = "+" THEN ParseIntSigned(FALSE, ParseUint(Tail(s)))
  ELSE IF s[1] = "-" THEN ParseIntSigned(TRUE, ParseUint(Tail(s)))
  ELSE ParseIntSigned(FALSE, ParseUint(s))

\* r.URL.Query().Get(key): the value, the empty string for an absent key
QueryGet(q, key) == IF key \in DOMAIN q THEN q[key] ELSE << >>

\* A faulty variant of qI32: the error of ParseInt is not looked at.
qI32NoErrCheck(q, key, def) ==
  IF QueryGet(q, key) = << >> THEN def
  ELSE ParseInt(QueryGet(q, key)).val

qI32(q, key, def) ==
  IF QueryGet(q, key) = << >> THEN def
  ELSE IF ParseInt(QueryGet(q, key)).err # "nil" THEN def
  ELSE ParseInt(QueryGet(q, key)).val

\* w.chunks[c] = ch on the map m
MapPut(m, c, chunk) == [k \in DOMAIN m \cup {c} |-> IF k = c THEN chunk ELSE m[k]]

\* World.GetOrCreateChunk(c) run alone, on the map m: the map after the
\* call and the chunk returned
GetOrCreateChunkAlone(m, seed, c) ==
  IF c \in DOMAIN m
    THEN (IF ~m[c].TopValid
            THEN [chunks |-> MapPut(m, c, RebuildTopCache(m[c])), ch |-> RebuildTopCache(m[c])]
          ELSE [chunks |-> m, ch |-> m[c]])
  ELSE [chunks |-> MapPut(m, c, GenerateChunk(c, [Seed |-> seed])),
        ch |-> GenerateChunk(c, [Seed |-> seed])]

\* the bytes of the body whose columns the model keeps
BufIdx == ColIdx \cup { CW * CD + col : col \in ColIdx }

\* A faulty variant of the body: TopType copied first, TopY second.
BodyTypeFirst(c) ==
  [len |-> CW * CD * 2,
   bytes |-> [i \in BufIdx |-> IF i < CW * CD THEN c.TopType[i] ELSE c.TopY[i - CW * CD]]]

\* buf := make([]byte, CW*CD*2); copy(buf[:CW*CD], c.TopY[:]);
\* copy(buf[CW*CD:], c.TopType[:])
Body(c) ==
  [len |-> CW * CD * 2,
   bytes |-> [i \in BufIdx |-> IF i < CW * CD THEN c.TopY[i] ELSE c.TopType[i - CW * CD]]]

\* parameter values: valid, malformed, and around the ends of the int32 range
S3 == << "3" >>
SNeg3 == << "-", "3" >>
SMaxI32 == << "2", "1", "4", "7", "4", "8", "3", "6", "4", "7" >>
SMaxI32Plus1 == << "2", "1", "4", "7", "4", "8", "3", "6", "4", "8" >>
SMinI32 == << "-" >> \o SMaxI32Plus1
SMinI32Minus1 == << "-", "2", "1", "4", "7", "4", "8", "3", "6", "4", "9" >>
SPow32 == << "4", "2", "9", "4", "9", "6", "7", "2", "9", "6" >>
CxSamples ==
  { << "0" >>, S3, SNeg3, << "+", "3" >>, << "0", "3" >>, << "a", "b", "c" >>,
    << "3", "x" >>, << "-" >>, << "1", ".", "5" >>, << " ", "3" >>,
    SMaxI32, SMaxI32Plus1, SMinI32, SMinI32Minus1, SPow32, SPow32 \o << "x" >> }

\* the queries of the requests: none, some or all of cx, cy, cz present
ApiQueries ==
  { [cx |-> s] : s \in CxSamples }
    \cup { [k \in {} |-> << >>],
           [cx |-> S3, cy |-> << "-", "1" >>],
           [cy |-> << "1" >>, cz |-> << "0" >>],
           [cz |-> S3],
           [cx |-> SNeg3, cy |-> << "x" >>, cz |-> SMaxI32Plus1] }

ApiIdle ==
  /\ srvChunks = << >>
  /\ reqQuery = << >>
  /\ reqCoord = Coord(0, 0, 0)
  /\ respChunk = << >>
  /\ respBody = << >>
  /\ nreq = 0

\* lines 56-65: the call of GetOrCreateChunk has returned r
Respond(q, c, r) ==
  /\ srvChunks' = r.chunks
  /\ reqQuery' = q
  /\ reqCoord' = c
  /\ respChunk' = r.ch
  /\ respBody' = Body(r.ch)
  /\ nreq' = nreq + 1

\* the handler of /api/chunk for a request with query q
HandleChunk ==
  \E q \in ApiQueries :
    /\ nreq < MaxRequests
    /\ Respond(q, Coord(qI32(q, "cx", 0), qI32(q, "cy", 0), qI32(q, "cz", 0)),
               GetOrCreateChunkAlone(srvChunks, worldSeed,
                 Coord(qI32(q, "cx", 0), qI32(q, "cy", 0), qI32(q, "cz", 0))))
    /\ UNCHANGED << worldVars, chunkVars, genVars, packVars, noiseVars, clientVars >>

ApiNext == HandleChunk

(***************************************************************************)
(* cmd/server/web/app.js: fetchChunk.  JavaScript runs one piece of code   *)
(* at a time: the call of fetchChunk up to its return, and each            *)
(* continuation of the async function after an await, are single steps;    *)
(* other steps may come between them.  A promise is                        *)
(*   "fetching"  waiting for fetch(),                                      *)
(*   "reading"   waiting for res.arrayBuffer(),                            *)
(*   "thrown"    the async function threw, the catch handler is queued,    *)
(*   "rejected"  the catch handler ran and threw the error on,             *)
(*   "fulfilled" the async function returned the entry.                    *)
(***************************************************************************)
MAX_CACHED_CHUNKS == 512
BYTES_PER_CHUNK_SNAPSHOT == CW * CD * 2

MaxFetches == 3

\* key(cx, cz), the string "cx,cz": one key per pair
key(cx, cz) == << cx, cz >>
ClientChunks == { << 0, 0 >>, << 1, 0 >> }
\* body lengths the network may deliver
BodyLens == { BYTES_PER_CHUNK_SNAPSHOT, BYTES_PER_CHUNK_SNAPSHOT - 1, 0 }

ClientIdle ==
  /\ chunkCache = << >>
  /\ inflight = << >>
  /\ promises = << >>
  /\ lastRet = [kind |-> "none"]
  /\ requestQueue = << >>

\* Map.delete(k)
MapDelete(m, k) == [j \in DOMAIN m \ {k} |-> m[j]]

\* the key of the least recently used entry
Oldest(cache) ==
  CHOOSE k \in DOMAIN cache : \A j \in DOMAIN cache : cache[k].lastUsed <= cache[j].lastUsed

enforceCacheCap(cache) ==
  IF Cardinality(DOMAIN cache) <= MAX_CACHED_CHUNKS THEN cache
  ELSE MapDelete(cache, Oldest(cache))

\* the state of promise id becomes st, its body length len
Settle(id, st, len) == promises' = [promises EXCEPT ![id].st = st, ![id].len = len]

\* A faulty variant of fetchChunk: line 237, the look into inflight, is missing.
FetchChunkNoDedup(cx, cz) ==
  /\ IF key(cx, cz) \in DOMAIN chunkCache
       THEN /\ lastRet' = [kind |-> "entry", k |-> key(cx, cz)]
            /\ UNCHANGED << chunkCache, inflight, promises >>
     ELSE /\ Len(promises) < MaxFetches
          /\ promises' = Append(promises, [k |-> key(cx, cz), st |-> "fetching", len |-> -1])
          /\ inflight' = MapPut(inflight, key(cx, cz), Len(promises) + 1)
          /\ lastRet' = [kind |-> "promise", id |-> Len(promises) + 1]
          /\ UNCHANGED chunkCache
  /\ UNCHANGED << worldVars, chunkVars, genVars, packVars, noiseVars, apiVars,
                  requestQueue >>

\* lines 235-237 and 262-263: the call fetchChunk(cx, cz) up to its return
FetchChunk(cx, cz) ==
  /\ IF key(cx, cz) \in DOMAIN chunkCache
       THEN /\ lastRet' = [kind |-> "entry", k |-> key(cx, cz)]
            /\ UNCHANGED << chunkCache, inflight, promises >>
     ELSE IF key(cx, cz) \in DOMAIN inflight
       THEN /\ lastRet' = [kind |-> "promise", id |-> inflight[key(cx, cz)]]
            /\ UNCHANGED << chunkCache, inflight, promises >>
     ELSE /\ Len(promises) < MaxFetches
          /\ promises' = Append(promises, [k |-> key(cx, cz), st |-> "fetching", len |-> -1])
          /\ inflight' = MapPut(inflight, key(cx, cz), Len(promises) + 1)
          /\ lastRet' = [kind |-> "promise", id |-> Len(promises) + 1]
          /\ UNCHANGED chunkCache
  /\ UNCHANGED << worldVars, chunkVars, genVars, packVars, noiseVars, apiVars,
                  requestQueue >>

\* lines 240-241: fetch() settled, with a network error, with a response
\* that is not ok, or with a response that is ok
FetchSettles(id, outcome) ==
  /\ promises[id].st = "fetching"
  /\ Settle(id, IF outcome = "ok" THEN "reading" ELSE "thrown", -1)
  /\ UNCHANGED << chunkCache, inflight, lastRet >>
  /\ UNCHANGED << worldVars, chunkVars, genVars, packVars, noiseVars, apiVars,
                  requestQueue >>

\* lines 246-255: the entry made of a body of len bytes, stored
StoreEntry(id, len) ==
  /\ chunkCache' =
       enforceCacheCap(MapPut(chunkCache, promises[id].k,
         [cx |-> promises[id].k[1], cz |-> promises[id].k[2],
          topY |-> IF len < CW * CD THEN len ELSE CW * CD,
          topT |-> IF len < CW * CD THEN 0 ELSE len - CW * CD,
          lastUsed |-> Len(promises)]))
  /\ inflight' = MapDelete(inflight, promises[id].k)
  /\ Settle(id, "fulfilled", len)

\* A faulty variant of lines 243-255: the length of the body is not checked.
BodyArrivesUnchecked(id, len) ==
  /\ promises[id].st = "reading"
  /\ StoreEntry(id, len)
  /\ UNCHANGED lastRet
  /\ UNCHANGED << worldVars, chunkVars, genVars, packVars, noiseVars, apiVars,
                  requestQueue >>

\* lines 243-255: res.arrayBuffer() delivered a body of len bytes
BodyArrives(id, len) ==
  /\ promises[id].st = "reading"
  /\ IF len # BYTES_PER_CHUNK_SNAPSHOT
       THEN Settle(id, "thrown", len) /\ UNCHANGED << chunkCache, inflight >>
     ELSE StoreEntry(id, len)
  /\ UNCHANGED lastRet
  /\ UNCHANGED << worldVars, chunkVars, genVars, packVars, noiseVars, apiVars,
                  requestQueue >>

\* lines 256-259: the catch handler
CatchHandler(id) ==
  /\ promises[id].st = "thrown"
  /\ inflight' = MapDelete(inflight, promises[id].k)
  /\ Settle(id, "rejected", promises[id].len)
  /\ UNCHANGED << chunkCache, lastRet >>
  /\ UNCHANGED << worldVars, chunkVars, genVars, packVars, noiseVars, apiVars,
                  requestQueue >>

ClientNext ==
  \/ \E c \in ClientChunks : FetchChunk(c[1], c[2])
  \/ \E id \in 1..Len(promises), o \in {"ok", "notok", "error"} : FetchSettles(id, o)
  \/ \E id \in 1..Len(promises), len \in BodyLens : BodyArrives(id, len)
  \/ \E id \in 1..Len(promises) : CatchHandler(id)

(***************************************************************************)
(* cmd/server/web/app.js, the top-down viewer: scheduleWanted,             *)
(* pumpRequests and updateHUD, each run to its end in one step of the      *)
(* event loop, between the steps of the requests under way.                *)
(***************************************************************************)
MAX_INFLIGHT == 24

MaxSettled == 1
MaxQueue == 3

\* lines 270-296: the rectangle of chunks wanted and the chunk of the camera
Views ==
  { [cx0 |-> 0, cx1 |-> 12, cz0 |-> 0, cz1 |-> 1, camCx |-> 0, camCz |-> 0],
    [cx0 |-> -1, cx1 |-> 0, cz0 |-> 0, cz1 |-> 0, camCx |-> 0, camCz |-> 0] }
\* lines 481-482: the chunk under the pointer
Pointers == { << 0, 0 >>, << 20, 0 >> }

\* the chunks of a view in the order of the loops "for cz ... for cx ..."
ViewWidth(v) == v.cx1 - v.cx0 + 1
ViewEntry(v, cx, cz) ==
  [cx |-> cx, cz |-> cz,
   pri |-> (cx - v.camCx) * (cx - v.camCx) + (cz - v.camCz) * (cz - v.camCz)]
ViewChunks(v) ==
  [i \in 1..(ViewWidth(v) * (v.cz1 - v.cz0 + 1)) |->
     ViewEntry(v, v.cx0 + ((i - 1) % ViewWidth(v)),
                  v.cz0 + ((i - 1) \div ViewWidth(v)))]

\* requestQueue.sort((a, b) => a.pri - b.pri): ascending, equal entries
\* keep their order
RECURSIVE InsertByPri(_, _)
InsertByPri(q, e) ==
  IF q = << >> THEN << e >>
  ELSE IF q[Len(q)].pri <= e.pri THEN Append(q, e)
  ELSE Append(InsertByPri(SubSeq(q, 1, Len(q) - 1), e), q[Len(q)])
RECURSIVE SortByPri(_)
SortByPri(q) ==
  IF q = << >> THEN << >>
  ELSE InsertByPri(SortByPri(SubSeq(q, 1, Len(q) - 1)), q[Len(q)])

\* lines 294-311: the queue scheduleWanted builds
scheduleWanted(cache, inf, v) ==
  LET Missing(e) == key(e.cx, e.cz) \notin DOMAIN cache \cup DOMAIN inf
  IN  SortByPri(SelectSeq(ViewChunks(v), Missing))

\* lines 235-237 and 262: what a call fetchChunk(cx, cz) does to the tables
\* before it returns
fetchChunkStart(cache, st, cx, cz) ==
  IF key(cx, cz) \in DOMAIN cache \cup DOMAIN st.inflight THEN st
  ELSE [st EXCEPT
          !.promises = Append(@, [k |-> key(cx, cz), st |-> "fetching", len |-> -1]),
          !.inflight = MapPut(@, key(cx, cz), Len(st.promises) + 1)]

\* A faulty variant of pumpRequests: "inflight.size <= MAX_INFLIGHT"
RECURSIVE pumpRequestsOneMore(_, _)
pumpRequestsOneMore(cache, st) ==
  IF Cardinality(DOMAIN st.inflight) <= MAX_INFLIGHT /\ st.queue # << >>
    THEN pumpRequestsOneMore(cache,
           fetchChunkStart(cache, [st EXCEPT !.queue = Tail(@)],
                           Head(st.queue).cx, Head(st.queue).cz))
  ELSE st

\* lines 315-320, on the tables st = [inflight, promises, queue]
RECURSIVE pumpRequests(_, _)
pumpRequests(cache, st) ==
  IF Cardinality(DOMAIN st.inflight) < MAX_INFLIGHT /\ st.queue # << >>
    THEN pumpRequests(cache,
           fetchChunkStart(cache, [st EXCEPT !.queue = Tail(@)],
                           Head(st.queue).cx, Head(st.queue).cz))
  ELSE st

\* the tables become st
Tables(st) ==
  /\ inflight' = st.inflight
  /\ promises' = st.promises
  /\ requestQueue' = st.queue

ScheduleWanted ==
  \E v \in Views :
    /\ requestQueue' = scheduleWanted(chunkCache, inflight, v)
    /\ UNCHANGED << chunkCache, inflight, promises, lastRet >>
    /\ UNCHANGED << worldVars, chunkVars, genVars, packVars, noiseVars, apiVars >>

PumpRequests ==
  /\ Tables(pumpRequests(chunkCache,
        [inflight |-> inflight, promises |-> promises, queue |-> requestQueue]))
  /\ UNCHANGED << chunkCache, lastRet >>
  /\ UNCHANGED << worldVars, chunkVars, genVars, packVars, noiseVars, apiVars >>

\* lines 490-507 of updateHUD, the pointer over chunk (ccx, ccz)
UpdateHUD ==
  \E p \in Pointers :
    /\ IF key(p[1], p[2]) \in DOMAIN chunkCache
         THEN /\ chunkCache' = [chunkCache EXCEPT ![key(p[1], p[2])].lastUsed = Len(promises)]
              /\ UNCHANGED << inflight, promises, requestQueue >>
       ELSE IF key(p[1], p[2]) \notin DOMAIN inflight
         THEN /\ Len(requestQueue) < MaxQueue
              /\ Tables(pumpRequests(chunkCache,
                    [inflight |-> inflight, promises |-> promises,
                     queue |-> << [cx |-> p[1], cz |-> p[2], pri |-> -1] >> \o requestQueue]))
              /\ UNCHANGED chunkCache
       ELSE UNCHANGED << chunkCache, inflight, promises, requestQueue >>
    /\ UNCHANGED lastRet
    /\ UNCHANGED << worldVars, chunkVars, genVars, packVars, noiseVars, apiVars >>

\* the requests that have come back so far
Settled == { id \in 1..Len(promises) : promises[id].st # "fetching" }

RequestSettles ==
  \E id \in 1..Len(promises), o \in {"ok", "notok", "error"} :
    Cardinality(Settled) < MaxSettled /\ FetchSettles(id, o)

ViewerNext ==
  \/ ScheduleWanted
  \/ PumpRequests
  \/ UpdateHUD
  \/ RequestSettles
  \/ \E id \in 1..Len(promises), len \in BodyLens : BodyArrives(id, len)
  \/ \E id \in 1..Len(promises) : CatchHandler(id)

(***************************************************************************)
(* internal/world/world.go: the World and the threads calling into it.     *)
(* A thread runs GetOrCreateChunk line by line (pc "L33" is about to run   *)
(* line 33), and between calls may edit, with Chunk.Set, the chunk its     *)
(* last call returned.  sync.RWMutex: RLock waits while a writer holds the *)
(* lock or is blocked in Lock; Lock waits for the writer and the readers   *)
(* to leave.  RebuildTopCache runs one column per step; the scan of one    *)
(* column and the two stores of its result are one step.                   *)
(***************************************************************************)
NumThreads == 2
MaxCalls == 3
MaxEdits == 2

Threads == 1..NumThreads
Coords == { Coord(0, 0, 0), Coord(3, 0, 0) }
NoCall == [path |-> "none", flag |-> "none", rebuilt |-> FALSE]
NoEdit == [p |-> 0, t |-> 0, m |-> 0]

\* NewWorld(seed), with no call in progress
WorldInit ==
  /\ wSeed = worldSeed
  /\ chunks = [c \in Coords |-> 0]
  /\ heap = << >>
  /\ readers = {}
  /\ writer = 0
  /\ waiting = {}
  /\ pc = [t \in Threads |-> "idle"]
  /\ arg = [t \in Threads |-> Coord(0, 0, 0)]
  /\ ch = [t \in Threads |-> 0]
  /\ rb = [t \in Threads |-> 0]
  /\ held = [t \in Threads |-> 0]
  /\ edit = [t \in Threads |-> NoEdit]
  /\ genCount = [c \in Coords |-> 0]
  /\ call = [t \in Threads |-> NoCall]
  /\ returned = [c \in Coords |-> {}]
  /\ calls = 0
  /\ edits = 0

\* the variables of the other machines
otherVars == << chunkVars, genVars, packVars, moreVars >>
lockVars == << readers, writer, waiting >>
ghostVars == << genCount, returned, calls, edits >>

\* a caller enters GetOrCreateChunk(c)
Call(t, c) ==
  /\ pc[t] = "idle"
  /\ calls < MaxCalls
  /\ calls' = calls + 1
  /\ arg' = [arg EXCEPT ![t] = c]
  /\ call' = [call EXCEPT ![t] = NoCall]
  /\ pc' = [pc EXCEPT ![t] = "L33"]
  /\ UNCHANGED << otherVars, wSeed, chunks, heap, lockVars, ch, rb, held, edit, genCount,
                  returned, edits >>

\* A faulty variant of RLock: the caller does not wait for the writer that
\* holds the lock.
RLockPastWriter(t, from, to) ==
  /\ pc[t] = from
  /\ waiting = {}
  /\ readers' = readers \cup {t}
  /\ pc' = [pc EXCEPT ![t] = to]
  /\ UNCHANGED << otherVars, wSeed, chunks, heap, writer, waiting, arg, ch, rb, held, edit,
                  call, ghostVars >>

\* w.mu.RLock() at line `from`
RLock(t, from, to) ==
  /\ pc[t] = from
  /\ writer = 0
  /\ waiting = {}
  /\ readers' = readers \cup {t}
  /\ pc' = [pc EXCEPT ![t] = to]
  /\ UNCHANGED << otherVars, wSeed, chunks, heap, writer, waiting, arg, ch, rb, held, edit,
                  call, ghostVars >>

\* line 33
RLock33(t) == RLock(t, "L33", "L34")

\* line 34: ch := w.chunks[c]
Lookup34(t) ==
  /\ pc[t] = "L34"
  /\ ch' = [ch EXCEPT ![t] = chunks[arg[t]]]
  /\ pc' = [pc EXCEPT ![t] = "L35"]
  /\ UNCHANGED << otherVars, wSeed, chunks, heap, lockVars, arg, rb, held, edit, call, ghostVars >>

\* A faulty variant of lines 35-36: the shared lock is kept.
KeepRLock35(t) ==
  /\ pc[t] = "L35"
  /\ pc' = [pc EXCEPT ![t] = IF ch[t] # 0 THEN "L37" ELSE "L47"]
  /\ call' = [call EXCEPT ![t].path = IF ch[t] # 0 THEN "hit" ELSE @]
  /\ UNCHANGED << otherVars, wSeed, chunks, heap, lockVars, arg, ch, rb, held, edit,
                  ghostVars >>

\* lines 35-36: w.mu.RUnlock(); if ch != nil
RUnlock35(t) ==
  /\ pc[t] = "L35"
  /\ readers' = readers \ {t}
  /\ pc' = [pc EXCEPT ![t] = IF ch[t] # 0 THEN "L37" ELSE "L47"]
  /\ call' = [call EXCEPT ![t].path = IF ch[t] # 0 THEN "hit" ELSE @]
  /\ UNCHANGED << otherVars, wSeed, chunks, heap, writer, waiting, arg, ch, rb, held, edit,
                  ghostVars >>

\* A faulty variant of line 37: the chunk found is returned as it is.
SkipTopValid37(t) ==
  /\ pc[t] = "L37"
  /\ pc' = [pc EXCEPT ![t] = "L43"]
  /\ call' = [call EXCEPT ![t].flag = IF heap[ch[t]].TopValid THEN "valid" ELSE "stale"]
  /\ UNCHANGED << otherVars, wSeed, chunks, heap, lockVars, arg, ch, rb, held, edit,
                  ghostVars >>

\* line 37: if !ch.TopValid
CheckTopValid37(t) ==
  /\ pc[t] = "L37"
  /\ pc' = [pc EXCEPT ![t] = IF ~heap[ch[t]].TopValid THEN "L39" ELSE "L43"]
  /\ call' = [call EXCEPT ![t].flag = IF heap[ch[t]].TopValid THEN "valid" ELSE "stale"]
  /\ UNCHANGED << otherVars, wSeed, chunks, heap, lockVars, arg, ch, rb, held, edit, ghostVars >>

\* line 39
RLock39(t) == RLock(t, "L39", "L40")

\* A faulty variant of RebuildTopCache: the cache is cleared before the
\* loops fill it.
RebuildClearFirst40(t) ==
  /\ pc[t] = "L40"
  /\ rb[t] < NCols
  /\ heap' = [heap EXCEPT ![ch[t]] =
                RebuildCol(IF rb[t] = 0
                             THEN [@ EXCEPT !.TopY = [col \in ColIdx |-> 0],
                                            !.TopType = [col \in ColIdx |-> 0]]
                             ELSE @,
                           ColOrder[rb[t] + 1][1], ColOrder[rb[t] + 1][2])]
  /\ rb' = [rb EXCEPT ![t] = @ + 1]
  /\ UNCHANGED << otherVars, wSeed, chunks, lockVars, pc, arg, ch, held, edit, call, ghostVars >>

\* line 40, ch.RebuildTopCache(): the next column of the loops
RebuildColumn40(t) ==
  /\ pc[t] = "L40"
  /\ rb[t] < NCols
  /\ heap' = [heap EXCEPT ![ch[t]] =
                RebuildCol(@, ColOrder[rb[t] + 1][1], ColOrder[rb[t] + 1][2])]
  /\ rb' = [rb EXCEPT ![t] = @ + 1]
  /\ UNCHANGED << otherVars, wSeed, chunks, lockVars, pc, arg, ch, held, edit, call, ghostVars >>

\* line 40, ch.RebuildTopCache(): c.TopValid = true after the loops
RebuildValid40(t) ==
  /\ pc[t] = "L40"
  /\ rb[t] = NCols
  /\ heap' = [heap EXCEPT ![ch[t]] = StoreTopValid(@, TRUE)]
  /\ rb' = [rb EXCEPT ![t] = 0]
  /\ call' = [call EXCEPT ![t].rebuilt = TRUE]
  /\ pc' = [pc EXCEPT ![t] = "L41"]
  /\ UNCHANGED << otherVars, wSeed, chunks, lockVars, arg, ch, held, edit, ghostVars >>

\* line 41
RUnlock41(t) ==
  /\ pc[t] = "L41"
  /\ readers' = readers \ {t}
  /\ pc' = [pc EXCEPT ![t] = "L43"]
  /\ UNCHANGED << otherVars, wSeed, chunks, heap, writer, waiting, arg, ch, rb, held, edit,
                  call, ghostVars >>

\* lines 43 and 54: return ch
Return(t) ==
  /\ pc[t] \in {"L43", "L54"}
  /\ held' = [held EXCEPT ![t] = ch[t]]
  /\ returned' = [returned EXCEPT ![arg[t]] = @ \cup {ch[t]}]
  /\ pc' = [pc EXCEPT ![t] = "idle"]
  /\ ch' = [ch EXCEPT ![t] = 0]
  /\ arg' = [arg EXCEPT ![t] = Coord(0, 0, 0)]
  /\ call' = [call EXCEPT ![t] = NoCall]
  /\ UNCHANGED << otherVars, wSeed, chunks, heap, lockVars, rb, edit, genCount, calls, edits >>

\* line 47, w.mu.Lock(): the caller announces itself and blocks
LockWait47(t) ==
  /\ pc[t] = "L47"
  /\ waiting' = waiting \cup {t}
  /\ pc' = [pc EXCEPT ![t] = "L47w"]
  /\ UNCHANGED << otherVars, wSeed, chunks, heap, readers, writer, arg, ch, rb, held, edit,
                  call, ghostVars >>

\* A faulty variant of line 47: the lock is taken without waiting for the
\* writer that holds it.
LockNoWait47(t) ==
  /\ pc[t] = "L47w"
  /\ readers = {}
  /\ writer' = t
  /\ waiting' = waiting \ {t}
  /\ pc' = [pc EXCEPT ![t] = "L49"]
  /\ UNCHANGED << otherVars, wSeed, chunks, heap, readers, arg, ch, rb, held, edit, call,
                  ghostVars >>

\* line 47, w.mu.Lock(): the lock is free of writer and readers
LockAcquire47(t) ==
  /\ pc[t] = "L47w"
  /\ writer = 0
  /\ readers = {}
  /\ writer' = t
  /\ waiting' = waiting \ {t}
  /\ pc' = [pc EXCEPT ![t] = "L49"]
  /\ UNCHANGED << otherVars, wSeed, chunks, heap, readers, arg, ch, rb, held, edit, call,
                  ghostVars >>

\* A faulty variant of line 49: no second lookup under the exclusive lock,
\* the caller generates whatever the map holds by now.
NoRecheck49(t) ==
  /\ pc[t] = "L49"
  /\ pc' = [pc EXCEPT ![t] = "L50"]
  /\ UNCHANGED << otherVars, wSeed, chunks, heap, lockVars, arg, ch, rb, held, edit,
                  call, ghostVars >>

\* line 49: if ch = w.chunks[c]; ch == nil
Recheck49(t) ==
  /\ pc[t] = "L49"
  /\ ch' = [ch EXCEPT ![t] = chunks[arg[t]]]
  /\ pc' = [pc EXCEPT ![t] = IF chunks[arg[t]] = 0 THEN "L50" ELSE "L53"]
  /\ call' = [call EXCEPT ![t] =
                IF chunks[arg[t]] = 0 THEN @
                ELSE [@ EXCEPT !.path = "recheck",
                               !.flag = IF heap[chunks[arg[t]]].TopValid
                                          THEN "valid" ELSE "stale"]]
  /\ UNCHANGED << otherVars, wSeed, chunks, heap, lockVars, arg, rb, held, edit, ghostVars >>

\* A faulty variant of line 50: the seed depends on how many chunks were
\* generated before.
GenerateReseeded50(t) ==
  /\ pc[t] = "L50"
  /\ heap' = Append(heap, GenerateChunk(arg[t],
                       [Seed |-> IF Len(heap) = 0 THEN wSeed ELSE OtherSeed]))
  /\ ch' = [ch EXCEPT ![t] = Len(heap) + 1]
  /\ genCount' = [genCount EXCEPT ![arg[t]] = @ + 1]
  /\ call' = [call EXCEPT ![t].path = "gen"]
  /\ pc' = [pc EXCEPT ![t] = "L51"]
  /\ UNCHANGED << otherVars, wSeed, chunks, lockVars, arg, rb, held, edit, returned, calls, edits >>

\* line 50: ch = gen.GenerateChunk(c, gen.Context{Seed: w.seed})
Generate50(t) ==
  /\ pc[t] = "L50"
  /\ heap' = Append(heap, GenerateChunk(arg[t], [Seed |-> wSeed]))
  /\ ch' = [ch EXCEPT ![t] = Len(heap) + 1]
  /\ genCount' = [genCount EXCEPT ![arg[t]] = @ + 1]
  /\ call' = [call EXCEPT ![t].path = "gen"]
  /\ pc' = [pc EXCEPT ![t] = "L51"]
  /\ UNCHANGED << otherVars, wSeed, chunks, lockVars, arg, rb, held, edit, returned, calls, edits >>

\* line 51: w.chunks[c] = ch
Insert51(t) ==
  /\ pc[t] = "L51"
  /\ chunks' = [chunks EXCEPT ![arg[t]] = ch[t]]
  /\ pc' = [pc EXCEPT ![t] = "L53"]
  /\ UNCHANGED << otherVars, wSeed, heap, lockVars, arg, ch, rb, held, edit, call, ghostVars >>

\* A faulty variant of line 53: the caller goes on without releasing the lock.
NoUnlock53(t) ==
  /\ pc[t] = "L53"
  /\ pc' = [pc EXCEPT ![t] = "L54"]
  /\ UNCHANGED << otherVars, wSeed, chunks, heap, lockVars, arg, ch, rb, held, edit,
                  call, ghostVars >>

\* line 53: w.mu.Unlock()
Unlock53(t) ==
  /\ pc[t] = "L53"
  /\ writer' = 0
  /\ pc' = [pc EXCEPT ![t] = "L54"]
  /\ UNCHANGED << otherVars, wSeed, chunks, heap, readers, waiting, arg, ch, rb, held, edit,
                  call, ghostVars >>

\* access.go line 49, Set(p, t, m) on the chunk the caller holds: c.Type[i] = t
SetType49(t, p, ty, m) ==
  /\ pc[t] = "idle"
  /\ held[t] # 0
  /\ edits < MaxEdits
  /\ edits' = edits + 1
  /\ edit' = [edit EXCEPT ![t] = [p |-> p, t |-> ty, m |-> m]]
  /\ heap' = [heap EXCEPT ![held[t]] = StoreType(@, IdxFromPacked(p), ty)]
  /\ pc' = [pc EXCEPT ![t] = "S50"]
  /\ UNCHANGED << otherVars, wSeed, chunks, lockVars, arg, ch, rb, held, call, genCount,
                  returned, calls >>

\* access.go line 50: c.Meta[i] = m
SetMeta50(t) ==
  /\ pc[t] = "S50"
  /\ heap' = [heap EXCEPT ![held[t]] = StoreMeta(@, IdxFromPacked(edit[t].p), edit[t].m)]
  /\ pc' = [pc EXCEPT ![t] = "S51"]
  /\ UNCHANGED << otherVars, wSeed, chunks, lockVars, arg, ch, rb, held, edit, call, ghostVars >>

\* access.go line 51: c.TopValid = false
SetInvalidate51(t) ==
  /\ pc[t] = "S51"
  /\ heap' = [heap EXCEPT ![held[t]] = StoreTopValid(@, FALSE)]
  /\ edit' = [edit EXCEPT ![t] = NoEdit]
  /\ pc' = [pc EXCEPT ![t] = "idle"]
  /\ UNCHANGED << otherVars, wSeed, chunks, lockVars, arg, ch, rb, held, call, ghostVars >>

GetOrCreateChunk(t) ==
  \/ \E c \in Coords : Call(t, c)
  \/ RLock33(t)
  \/ Lookup34(t)
  \/ RUnlock35(t)
  \/ CheckTopValid37(t)
  \/ RLock39(t)
  \/ RebuildColumn40(t)
  \/ RebuildValid40(t)
  \/ RUnlock41(t)
  \/ LockWait47(t)
  \/ LockAcquire47(t)
  \/ Recheck49(t)
  \/ Generate50(t)
  \/ Insert51(t)
  \/ Unlock53(t)
  \/ Return(t)

SetCall(t) ==
  \/ \E p \in WorldEditPos, ty \in EditTypes, m \in EditMetas : SetType49(t, p, ty, m)
  \/ SetMeta50(t)
  \/ SetInvalidate51(t)

ThreadStep(t) == GetOrCreateChunk(t) \/ SetCall(t)

(***************************************************************************)
(* Specifications.                                                         *)
(***************************************************************************)
\* the World under concurrent callers and editors
\* the added machines at rest
MoreIdle == NoiseIdle /\ ApiIdle /\ ClientIdle

Init == WorldInit /\ ChunkIdle /\ GenIdle /\ PackIdle /\ MoreIdle
Next == \E t \in Threads : ThreadStep(t)
Spec == Init /\ [][Next]_vars

\* the World under one caller: calls and edits strictly one after the other
SeqNext == ThreadStep(1)
SeqSpec == Init /\ [][SeqNext]_vars

\* the World under a fair scheduler and a fair sync.RWMutex: a thread
\* inside GetOrCreateChunk keeps running, and a thread at RLock or Lock
\* gets the lock if it is free again and again.  Whether a caller starts
\* a call or an edit is left to it.  The computations of lines 40 and 50
\* wait for nothing and end: no thread stays in one forever.
Acquires(t) == RLock33(t) \/ RLock39(t) \/ LockAcquire47(t)
Runs(t) ==
  \/ Lookup34(t) \/ RUnlock35(t) \/ CheckTopValid37(t) \/ RebuildValid40(t)
  \/ RUnlock41(t) \/ LockWait47(t) \/ Recheck49(t) \/ Insert51(t) \/ Unlock53(t)
  \/ Return(t)
Computing(t) == pc[t] = "L50" \/ (pc[t] = "L40" /\ rb[t] < NCols)
Fairness ==
  \A t \in Threads :
    WF_vars(Runs(t)) /\ SF_vars(Acquires(t)) /\ []<>(~Computing(t))
FairSpec == Init /\ [][Next]_vars /\ Fairness

\* the accessors on one chunk
ChunkSpecInit == WorldInit /\ ChunkInit /\ GenIdle /\ PackIdle /\ MoreIdle
ChunkSpec == ChunkSpecInit /\ [][ChunkNext]_vars

\* the generation pipeline
GenSpecInit == WorldInit /\ ChunkIdle /\ GenInit /\ PackIdle /\ MoreIdle
GenSpec == GenSpecInit /\ [][GenNext]_vars

\* Pack and Unpack
PackSpecInit == WorldInit /\ ChunkIdle /\ GenIdle /\ PackInit /\ MoreIdle
PackSpec == PackSpecInit /\ [][PackNext]_vars

\* Pack and Unpack on any uint8 arguments
PackAnySpecInit == WorldInit /\ ChunkIdle /\ GenIdle /\ PackAnyInit /\ MoreIdle
PackAnySpec == PackAnySpecInit /\ [][PackNext]_vars

\* noise2D and terrainHeight
NoiseSpecInit ==
  WorldInit /\ ChunkIdle /\ GenIdle /\ PackIdle /\ NoiseInit /\ ApiIdle /\ ClientIdle
NoiseSpec == NoiseSpecInit /\ [][NoiseNext]_vars

\* the /api/chunk handler
ApiSpec == Init /\ [][ApiNext]_vars

\* the viewer's fetchChunk
ClientSpec == Init /\ [][ClientNext]_vars

\* the viewer's request scheduling
ViewerSpec == Init /\ [][ViewerNext]_vars

\* the World after one caller had chunk c generated and returned and then
\* changed one of its voxels with Set: c is stored with TopValid = false
StaleWorld(c, p, ty, m) ==
  /\ wSeed = worldSeed
  /\ chunks = [d \in Coords |-> IF d = c THEN 1 ELSE 0]
  /\ heap = << Set(GenerateChunk(c, [Seed |-> worldSeed]), p, ty, m) >>
  /\ readers = {}
  /\ writer = 0
  /\ waiting = {}
  /\ pc = [t \in Threads |-> "idle"]
  /\ arg = [t \in Threads |-> Coord(0, 0, 0)]
  /\ ch = [t \in Threads |-> 0]
  /\ rb = [t \in Threads |-> 0]
  /\ held = [t \in Threads |-> IF t = 1 THEN 1 ELSE 0]
  /\ edit = [t \in Threads |-> NoEdit]
  /\ genCount = [d \in Coords |-> IF d = c THEN 1 ELSE 0]
  /\ call = [t \in Threads |-> NoCall]
  /\ returned = [d \in Coords |-> IF d = c THEN {1} ELSE {}]
  /\ calls = 1
  /\ edits = 1

\* GetOrCreateChunk callers on a World that holds a stale chunk, with no
\* Set while they run
StaleInit ==
  /\ \E c \in Coords, p \in WorldEditPos, ty \in EditTypes, m \in EditMetas :
       StaleWorld(c, p, ty, m)
  /\ ChunkIdle /\ GenIdle /\ PackIdle /\ MoreIdle
RebuildNext == \E t \in Threads : GetOrCreateChunk(t)
RebuildSpec == StaleInit /\ [][RebuildNext]_vars

(***************************************************************************)
(* Properties.                                                             *)
(***************************************************************************)
\* the highest non-air voxel of column (x, z) of a Type array, as
\* <<height, type>>, or <<0, 0>> for a column of air
NonAir(type, x, z) == { y \in Heights : type[IdxW(x, y, z)] # BlockAir }
Highest(S) == CHOOSE y \in S : \A w \in S : w <= y
TopOf(type, x, z) ==
  IF NonAir(type, x, z) = {} THEN << 0, 0 >>
  ELSE << Highest(NonAir(type, x, z)), type[IdxW(x, Highest(NonAir(type, x, z)), z)] >>

\* TopY / TopType of every column agree with the Type array
Coherent(c) ==
  \A x \in WinX, z \in WinZ :
    << c.TopY[ColOf(x, z)], c.TopType[ColOf(x, z)] >> = TopOf(c.Type, x, z)

\* C1: under any interleaving of concurrent GetOrCreateChunk calls,
\* gen.GenerateChunk runs at most once per coordinate, and exactly once for
\* a coordinate whose chunk is in the map or was returned to a caller.
C1_GenerateOncePerCoord ==
  \A c \in Coords :
    /\ genCount[c] <= 1
    /\ (chunks[c] # 0 \/ returned[c] # {}) => genCount[c] = 1

\* two callers missed the same coordinate at line 34, one generated the
\* chunk and the other found it by the re-check under the exclusive lock
C1_Witness ==
  \E t \in Threads :
    /\ pc[t] = "L54"
    /\ call[t].path = "recheck"
    /\ genCount[arg[t]] = 1
    /\ \E u \in Threads \ {t} : held[u] = ch[t]

\* every call for a coordinate returned the instance the map holds for it
SameInstance ==
  \A c \in Coords : returned[c] \subseteq ({ chunks[c] } \ { 0 })

\* a map entry, once set, stays as it is
EntryStable ==
  \A c \in Coords : chunks[c] # 0 => chunks'[c] = chunks[c]

\* C2: all GetOrCreateChunk calls for one coordinate, concurrent or one
\* after the other, return the same Chunk instance, and a map entry is
\* never removed or replaced once it is inserted.
C2_SameInstanceForever == [] SameInstance /\ [][EntryStable]_vars

\* both threads hold the one instance of a coordinate, after three calls
C2_Witness ==
  /\ calls = MaxCalls
  /\ \A t \in Threads : pc[t] = "idle"
  /\ \E c \in Coords : chunks[c] # 0 /\ \A t \in Threads : held[t] = chunks[c]

\* C3: a call that returns a chunk that was already stored, and that was
\* stale (TopValid = false) when the call found it, has run RebuildTopCache
\* on it before it returns: on the path of line 36 and on the path of the
\* re-check of line 49.
C3_StaleRebuiltBeforeReturn ==
  \A t \in Threads :
    (pc[t] \in {"L43", "L54"} /\ call[t].path \in {"hit", "recheck"}
       /\ call[t].flag = "stale")
      => call[t].rebuilt

\* a Set on the chunk instance i is between its first and its last store
SetRunning(i) == \E t \in Threads : pc[t] \in {"S50", "S51"} /\ held[t] = i

\* C4: in every reachable state, also when a Set on a published chunk
\* interleaves with a RebuildTopCache on it in another thread, a chunk with
\* TopValid = true (and no Set in the middle of its stores) has TopY and
\* TopType equal to the highest non-air voxel of each column of Type.
C4_ValidImpliesCoherent ==
  \A i \in 1..Len(heap) :
    (heap[i].TopValid /\ ~SetRunning(i)) => Coherent(heap[i])

\* C5: with calls and edits one after the other, a GetOrCreateChunk call
\* returns the chunk with TopValid = true and TopY / TopType equal to the
\* highest non-air voxel of each column, whatever Set calls came before.
C5_ReturnedChunkCoherent ==
  \A t \in Threads :
    pc[t] \in {"L43", "L54"} => heap[ch[t]].TopValid /\ Coherent(heap[ch[t]])

\* the call returns the chunk (0, 0, 0) rebuilt after two edits: one below
\* the surface and one that turned the surface voxel (height 16) into air
C5_Witness ==
  /\ pc[1] = "L43"
  /\ arg[1] = Coord(0, 0, 0)
  /\ call[1].rebuilt
  /\ edits = 2
  /\ heap[ch[1]].Type[IdxW(0, 5, 0)] = BlockAir
  /\ heap[ch[1]].Type[IdxW(0, 16, 0)] = BlockAir
  /\ heap[ch[1]].TopY[ColOf(0, 0)] = 15

\* C6: Set and SetTypeIdx leave TopValid = false, whatever they wrote.
C6_TypeWriteInvalidates ==
  cOp.name \in {"Set", "SetTypeIdx"} => ~cChunk.TopValid

\* a Set on a chunk with a valid cache wrote the type already stored, in a
\* voxel that is not the top of its column
C6_Witness ==
  /\ cOp.name = "Set"
  /\ cPrev.TopValid
  /\ cPrev.Type[IdxFromPacked(cOp.p)] = cOp.t
  /\ Unpack(cOp.p)[2] # cPrev.TopY[ColOf(Unpack(cOp.p)[1], Unpack(cOp.p)[3])]
  /\ ~cChunk.TopValid

\* C7: for x, y, z in 0..31, Pack(x, y, z) = x + 32 z + 1024 y = Idx(x, y, z),
\* a value of 0..32767, and Unpack gives (x, y, z) back.
C7_PackUnpack ==
  /\ packed # -1 =>
       /\ packed = px + 32 * pz + 1024 * py
       /\ packed \in 0..(N - 1)
       /\ Idx(px, py, pz) = packed
  /\ unpacked # << >> => unpacked = << px, py, pz >>

\* the last voxel of the chunk, packed and unpacked
C7_Witness ==
  /\ px = 31 /\ py = 31 /\ pz = 31
  /\ packed = 32767
  /\ unpacked = << 31, 31, 31 >>

\* the terrain height of column (x, z) of a logged generation
HeightOf(e, x, z) ==
  HeightAt(AddI32(Mul32I32(e.coord.X), x), AddI32(Mul32I32(e.coord.Z), z), e.seed)

\* the layers of C9 for a voxel of type t at global height gy, surface h
Stratified(t, h, gy) ==
  /\ gy = h => t = BlockGrass
  /\ (h - 3 <= gy /\ gy <= h - 1) => t = BlockDirt
  /\ gy < h - 3 => t = BlockStone
  /\ gy > h => t \in {BlockAir, BlockWater}

\* the layers in column (x, z), of surface h, of a chunk whose voxel y = 0
\* is at global height base
ColumnStratified(type, x, z, h, base) ==
  \A y \in Heights : Stratified(type[IdxW(x, y, z)], h, base + y)

\* C9: in every generated column of height h, the voxel at global height
\* gy = 32 coord.Y + y is grass for gy = h, dirt for h-3 <= gy <= h-1,
\* stone for gy < h-3, and air or water for gy > h.
C9_Stratification ==
  \A i \in 1..Len(gLog) : \A x \in WinX, z \in WinZ :
    ColumnStratified(gLog[i].chunk.Type, x, z, HeightOf(gLog[i], x, z),
                     BaseY(gLog[i].coord))

\* the water of C10 for a voxel of type t at global height gy, surface h
WaterFilled(t, h, gy) ==
  /\ (h < gy /\ gy <= seaLevel) => t = BlockWater
  /\ gy > seaLevel => t = BlockAir

\* the water in column (x, z), of surface h, of a chunk whose voxel y = 0
\* is at global height base
ColumnWaterFilled(type, x, z, h, base) ==
  h < seaLevel => \A y \in Heights : WaterFilled(type[IdxW(x, y, z)], h, base + y)

FNonNeg(a) == a.man = << >> \/ a.sgn = 0
FAtMostOne(a) == FNonNeg(FSub(FOfInt(1), a))

\* the height of terrainHeight before clampI32
RawHeight(wx, wz, seed) ==
  FRoundToI32(FAdd(FOfInt(6), FMul(terrainNoise(wx, wz, seed), FOfInt(20))))

\* C11: for every world column (wx, wz) of the int32 range, negative ones
\* included, and every seed, terrainHeight returns h with 1 <= h <= 30.
C11_HeightInRange ==
  heightOut # << >> => (1 <= heightOut[1] /\ heightOut[1] <= 30)

\* a column of negative wx whose height before the clamp is above 30
C11_Witness ==
  /\ heightOut = << 30 >>
  /\ nwx < 0
  /\ RawHeight(nwx, nwz, nseed) > 30

\* C12: every chunk GenerateChunk returns (the chunk the first
\* GetOrCreateChunk for a coordinate stores and returns) has TopValid = true
\* and TopY / TopType equal to the highest non-air voxel of each column.
C12_GeneratedCoherent ==
  \A i \in 1..Len(gLog) : gLog[i].chunk.TopValid /\ Coherent(gLog[i].chunk)

\* two generated chunks: one solid up to its top voxel, one with water at
\* sea level above the surface
C12_Witness ==
  /\ \E i \in 1..Len(gLog) : \E x \in WinX, z \in WinZ :
       /\ gLog[i].chunk.TopY[ColOf(x, z)] = CH - 1
       /\ gLog[i].chunk.TopType[ColOf(x, z)] = BlockStone
  /\ \E i \in 1..Len(gLog) : \E x \in WinX, z \in WinZ :
       /\ gLog[i].chunk.TopY[ColOf(x, z)] = seaLevel
       /\ gLog[i].chunk.TopType[ColOf(x, z)] = BlockWater

\* every entry of Type, Meta, TopY and TopType is 0
AllZero(c) ==
  /\ \A i \in VoxIdx : c.Type[i] = 0 /\ c.Meta[i] = 0
  /\ \A col \in ColIdx : c.TopY[col] = 0 /\ c.TopType[col] = 0

\* an all-zero chunk stays all-zero in every step that is not one of ops
ZeroUnless(ops) == (AllZero(cChunk) /\ cOp'.name \notin ops) => AllZero(cChunk')

\* C13: a chunk constructed by chunk.New has every Type, Meta, TopY and
\* TopType entry 0, and this stays so until a Set or a SetTypeIdx (or
\* generation) writes to it.
C13_FreshStaysZero ==
  /\ [](cOp.name = "New" => AllZero(cChunk))
  /\ [][ZeroUnless({"Set", "SetTypeIdx"})]_vars

\* C13 as amended: a chunk constructed by chunk.New has every Type, Meta,
\* TopY and TopType entry 0, and this stays so until a Set, a SetTypeIdx or
\* a SetMetaIdx (or generation) writes to it.
C13_FreshStaysZeroUntilSetter ==
  /\ [](cOp.name = "New" => AllZero(cChunk))
  /\ [][ZeroUnless({"Set", "SetTypeIdx", "SetMetaIdx"})]_vars

\* RebuildTopCache ran on a chunk that is as chunk.New made it
C13_Witness ==
  /\ cOp.name = "RebuildTopCache"
  /\ cSteps = 1
  /\ AllZero(cPrev)
  /\ cChunk.TopValid
  /\ AllZero(cChunk)

\* the block types
BlockTypes == { BlockAir, BlockGrass, BlockDirt, BlockStone, BlockWater }

\* C14: GenerateChunk is total over every ChunkCoord of the int32 range:
\* with wrapping int32 arithmetic every array index it computes is in
\* 0..32767, and it returns a chunk for the coordinate with every voxel
\* written and the top cache valid.
C14_TotalOverCoords ==
  \A i \in 1..Len(gLog) :
    /\ gLog[i].idx \subseteq 0..(N - 1)
    /\ VoxIdx \subseteq gLog[i].idx
    /\ gLog[i].chunk.C = gLog[i].coord
    /\ \A v \in VoxIdx : gLog[i].chunk.Type[v] \in BlockTypes
    /\ gLog[i].chunk.TopValid

\* generations at the ends of the coordinate range, where 32*X, 32*Y and
\* baseY + CH wrap, and below sea level in the chunk under the surface one,
\* where the water pass skips every height
C14_Witness ==
  /\ \E i \in 1..Len(gLog) : gLog[i].coord \in EdgeCoords /\ gLog[i].idx = VoxIdx
  /\ \E i \in 1..Len(gLog) : \E x \in WinX, z \in WinZ :
       /\ gLog[i].coord.Y = -1
       /\ HeightOf(gLog[i], x, z) < seaLevel
       /\ gLog[i].idx = VoxIdx

\* every voxel of a Type array is t
Uniform(type, t) == \A v \in VoxIdx : type[v] = t

\* the top voxel of the chunk (and so every voxel) is below the dirt band
\* of every column: gy < h - 3
BelowDirtBand(e) ==
  \A x \in WinX, z \in WinZ : AddI32(BaseY(e.coord), CH - 1) < HeightOf(e, x, z) - 3

\* C15: a chunk that lies entirely below the terrain height in every
\* column is generated as uniform stone (every Type entry is 3); stated for
\* the chunks that lie below the three dirt voxels under the surface as
\* well, where the stratification leaves no other type than stone.
C15_BelowTerrainIsStone ==
  \A i \in 1..Len(gLog) :
    BelowDirtBand(gLog[i]) => Uniform(gLog[i].chunk.Type, BlockStone)

\* the bottom voxel of the chunk (and so every voxel) is above the terrain
\* height of every column: baseY > h
AboveTerrain(e) ==
  \A x \in WinX, z \in WinZ : BaseY(e.coord) > HeightOf(e, x, z)

\* air, or water at the heights h < gy <= 12 of a column with h < 12
AirOrWater(t, h, gy) ==
  IF h < seaLevel /\ h < gy /\ gy <= seaLevel THEN t = BlockWater ELSE t = BlockAir

ColumnAirOrWater(type, x, z, h, base) ==
  \A y \in Heights : AirOrWater(type[IdxW(x, y, z)], h, base + y)

C17_NoiseInUnitInterval ==
  noiseOut # << >> => (FNonNeg(noiseOut[2]) /\ FAtMostOne(noiseOut[2]))

\* C18: the body of an /api/chunk response is exactly 2048 bytes: byte
\* i = x + 32 z is TopY[i] and byte 1024 + i is TopType[i] of the chunk
\* GetOrCreateChunk returned, and every TopY byte is in 0..31.
C18_SnapshotLayout ==
  nreq > 0 =>
    /\ respBody.len = 2048
    /\ respChunk = srvChunks[reqCoord]
    /\ \A x \in WinX, z \in WinZ :
         /\ respBody.bytes[x + 32 * z] = respChunk.TopY[ColOf(x, z)]
         /\ respBody.bytes[1024 + x + 32 * z] = respChunk.TopType[ColOf(x, z)]
         /\ respBody.bytes[x + 32 * z] \in 0..31

\* the second response, for chunk (3, 0, 0): grass at height 12 in column
\* 0, water at height 12 in column 1
C18_Witness ==
  /\ nreq = 2
  /\ reqCoord = Coord(3, 0, 0)
  /\ respBody.len = 2048
  /\ respBody.bytes[0] = 12 /\ respBody.bytes[1024] = BlockGrass
  /\ respBody.bytes[1] = 12 /\ respBody.bytes[1025] = BlockWater

\* the parameter values that are base-10 integers of the int32 range, each
\* with its value
IntegerValues ==
  { << << "0" >>, 0 >>, << << "1" >>, 1 >>, << << "-", "1" >>, -1 >>, << S3, 3 >>,
    << SNeg3, -3 >>, << << "+", "3" >>, 3 >>, << << "0", "3" >>, 3 >>,
    << SMaxI32, MaxI32 >>, << SMinI32, MinI32 >> }

\* what the request means for a parameter: its value if it is present and
\* one of the integers above, 0 otherwise
Meant(name) ==
  IF name \in DOMAIN reqQuery /\ \E p \in IntegerValues : p[1] = reqQuery[name]
    THEN (CHOOSE p \in IntegerValues : p[1] = reqQuery[name])[2]
  ELSE 0

\* C20: qI32 gives the default 0 for a parameter that is absent, empty,
\* not a base-10 integer or outside the int32 range, and the parsed value
\* otherwise; GetOrCreateChunk is called with the resulting coordinate and
\* returns the chunk of that coordinate.
C20_QueryDefaults ==
  nreq > 0 =>
    /\ reqCoord = Coord(Meant("cx"), Meant("cy"), Meant("cz"))
    /\ respChunk.C = reqCoord

\* a request with a valid cx, a malformed cy and a cz just above the int32
\* range was served with the chunk (-3, 0, 0)
C20_Witness ==
  /\ nreq > 0
  /\ reqQuery = [cx |-> SNeg3, cy |-> << "x" >>, cz |-> SMaxI32Plus1]
  /\ reqCoord = Coord(-3, 0, 0)
  /\ respChunk.C = Coord(-3, 0, 0)

\* C19: fetchChunk rejects a response whose body is not 2048 bytes long:
\* the promise fails (it is never fulfilled), no entry is added to
\* chunkCache for the key (every entry was made of a 2048-byte body), and
\* once the promise is rejected the key is out of inflight unless a later
\* request for the chunk was issued.
C19_BadLengthRejected ==
  /\ \A id \in 1..Len(promises) :
       /\ (promises[id].st = "fulfilled") => promises[id].len = 2048
       /\ (promises[id].len \notin {-1, 2048}) => promises[id].st \in {"thrown", "rejected"}
       /\ (promises[id].st = "rejected") =>
            ~(promises[id].k \in DOMAIN inflight /\ inflight[promises[id].k] = id)
  /\ \A k \in DOMAIN chunkCache :
       chunkCache[k].topY = 1024 /\ chunkCache[k].topT = 1024
  /\ \A k \in DOMAIN inflight : promises[inflight[k]].st # "rejected"

\* a response of 2047 bytes for chunk (0, 0) was rejected and left nothing
\* behind; the request was issued again and its 2048-byte response cached
C19_Witness ==
  /\ Len(promises) = 2
  /\ promises[1] = [k |-> key(0, 0), st |-> "rejected", len |-> 2047]
  /\ promises[2] = [k |-> key(0, 0), st |-> "fulfilled", len |-> 2048]
  /\ DOMAIN chunkCache = { key(0, 0) }
  /\ inflight = << >>

\* the lines of GetOrCreateChunk that read the map, the line that writes it
MapReadLines == { "L34", "L49" }
MapWriteLines == { "L51" }

\* a thread about to read the map holds the lock (shared at line 34,
\* exclusive at line 49), a thread about to write it holds it exclusive,
\* and the exclusive lock excludes every shared holder
MapUnderLock ==
  /\ \A t \in Threads :
       /\ pc[t] = "L34" => t \in readers
       /\ pc[t] \in {"L49", "L50", "L51", "L53"} => writer = t
       /\ pc[t] \in MapWriteLines =>
            \A u \in Threads \ {t} : pc[u] \notin MapReadLines \cup MapWriteLines
  /\ writer # 0 => readers = {}

\* a step that changes the map is line 51 of the thread that holds the
\* exclusive lock, with no shared holder
InsertUnderLock ==
  chunks' # chunks =>
    /\ writer # 0
    /\ pc[writer] = "L51"
    /\ readers = {}
    /\ \A c \in Coords : chunks'[c] # chunks[c] => c = arg[writer]

\* C21: World.chunks is written only while the exclusive lock is held; an
\* insertion never overlaps a map read of another thread or another
\* insertion, and no thread holds the shared lock while another holds the
\* exclusive lock.
C21_MapWrittenUnderLock == [] MapUnderLock /\ [][InsertUnderLock]_vars

\* a thread is about to insert its chunk while the other, which wants to
\* read the map, is kept at the RLock of line 33
C21_Witness ==
  \E t \in Threads, u \in Threads :
    /\ pc[t] = "L51" /\ writer = t
    /\ pc[u] = "L33"

\* thread t is inside GetOrCreateChunk and cannot take its next step
InCall(t) == pc[t] \notin {"idle", "S50", "S51"}
\* the steps of GetOrCreateChunk other than the computations of lines 40
\* (the column loops) and 50, which wait for nothing
WaitFreeLines(t) == Computing(t)
OtherLines(t) ==
  \/ RLock33(t) \/ Lookup34(t) \/ RUnlock35(t) \/ CheckTopValid37(t) \/ RLock39(t)
  \/ RebuildValid40(t) \/ RUnlock41(t) \/ LockWait47(t) \/ LockAcquire47(t)
  \/ Recheck49(t) \/ Insert51(t) \/ Unlock53(t) \/ Return(t)
Blocked(t) == InCall(t) /\ ~WaitFreeLines(t) /\ ~ENABLED OtherLines(t)

\* thread u is inside the section of World.mu it holds exclusive / shared,
\* or is blocked in Lock
InExclusive(u) == writer = u /\ pc[u] \in {"L49", "L50", "L51", "L53"}
InShared(u) == u \in readers /\ pc[u] \in {"L34", "L35", "L40", "L41"}
AwaitsExclusive(u) == u \in waiting /\ pc[u] = "L47w"

\* C22 as stated: a call for a coordinate is never blocked while another
\* thread has the generation of a different coordinate in progress.
C22_NeverBlockedByOtherGeneration ==
  \A t \in Threads, u \in Threads :
    (InCall(t) /\ pc[u] = "L50" /\ arg[t] # arg[u]) => ~Blocked(t)

\* C22, amended: a call is blocked only at a lock acquisition (lines 33,
\* 39, 47), and only while another thread is inside a section of World.mu
\* that conflicts with it or is blocked in Lock; the generation of another
\* coordinate, which runs inside the exclusive section, is such a case.
C22_BlockedOnlyAtLock ==
  \A t \in Threads :
    Blocked(t) =>
      \/ /\ pc[t] \in {"L33", "L39"}
         /\ \E u \in Threads \ {t} : InExclusive(u) \/ AwaitsExclusive(u)
      \/ /\ pc[t] = "L47w"
         /\ \E u \in Threads \ {t} : InExclusive(u) \/ InShared(u)

\* a call for a coordinate that is in the map (a cache hit to be) waits at
\* line 33 while the other thread generates a different coordinate
C22_Witness ==
  \E t \in Threads, u \in Threads :
    /\ pc[t] = "L33" /\ Blocked(t)
    /\ chunks[arg[t]] # 0
    /\ pc[u] = "L50" /\ arg[u] # arg[t]

\* GenerateChunk(c, seed) for the seed passed to NewWorld, by coordinate
Generated == [c \in Coords |-> GenerateChunk(c, [Seed |-> worldSeed])]

\* while no block was edited, every entry of the store is the chunk of its
\* own coordinate with the voxels GenerateChunk gives for it
StoreIsGenerated ==
  /\ wSeed = worldSeed
  /\ edits = 0 =>
       \A c \in Coords :
         chunks[c] # 0 =>
           /\ heap[chunks[c]].C = c
           /\ heap[chunks[c]].Type = Generated[c].Type
           /\ heap[chunks[c]].Meta = Generated[c].Meta

\* a step of a call for a coordinate leaves the entry and the chunk of every
\* other coordinate as they are
CallKeepsOthers ==
  \A t \in Threads :
    (InCall(t) /\ (pc'[t] # pc[t] \/ rb'[t] # rb[t])) =>
      \A c \in Coords \ {arg[t]} :
        /\ chunks'[c] = chunks[c]
        /\ chunks[c] # 0 => heap'[chunks[c]] = heap[chunks[c]]

\* C23: after any interleaving of GetOrCreateChunk calls with no block
\* edits, every entry chunks[c] has C = c and the Type and Meta of
\* GenerateChunk(c, seed) for the seed of NewWorld, whatever the order of
\* the requests, and a call for c leaves the entries of the other
\* coordinates unchanged.
C23_StoreMatchesGeneration == [] StoreIsGenerated /\ [][CallKeepsOthers]_vars

\* both coordinates are stored, (3, 0, 0) generated before (0, 0, 0), with
\* no edit made
C23_Witness ==
  /\ edits = 0
  /\ chunks[Coord(3, 0, 0)] = 1
  /\ chunks[Coord(0, 0, 0)] = 2
  /\ \A t \in Threads : pc[t] = "idle"

\* C24: after RebuildTopCache, for every column col = x + 32 z, TopY[col]
\* is the largest y with Type[Idx(x, y, z)] # 0 and TopType[col] the type of
\* that voxel; a column of air has TopY[col] = 0 and TopType[col] = 0, so
\* TopType[col] = 0 exactly when the column is all air; TopValid is true.
C24_RebuildComputesTop ==
  cOp.name = "RebuildTopCache" =>
    /\ cChunk.TopValid
    /\ \A x \in WinX, z \in WinZ :
         /\ (\E y \in Heights : cChunk.Type[IdxW(x, y, z)] # 0) =>
              /\ cChunk.Type[IdxW(x, cChunk.TopY[x + 32 * z], z)] # 0
              /\ \A y \in Heights :
                   y > cChunk.TopY[x + 32 * z] => cChunk.Type[IdxW(x, y, z)] = 0
              /\ cChunk.TopType[x + 32 * z] = cChunk.Type[IdxW(x, cChunk.TopY[x + 32 * z], z)]
         /\ (\A y \in Heights : cChunk.Type[IdxW(x, y, z)] = 0) =>
              cChunk.TopY[x + 32 * z] = 0 /\ cChunk.TopType[x + 32 * z] = 0
         /\ (cChunk.TopType[x + 32 * z] = 0) <=>
              (\A y \in Heights : cChunk.Type[IdxW(x, y, z)] = 0)

\* a rebuild of a fresh chunk after one voxel of column (0, 0) was set to
\* stone at height 5: that column has its top there, column (1, 0) is air
C24_Witness ==
  /\ cOp.name = "RebuildTopCache"
  /\ ~cPrev.TopValid
  /\ cChunk.Type[IdxW(0, 5, 0)] = BlockStone
  /\ cChunk.TopY[0] = 5 /\ cChunk.TopType[0] = BlockStone
  /\ \A y \in Heights : cChunk.Type[IdxW(1, y, 0)] = BlockAir
  /\ cChunk.TopY[1] = 0 /\ cChunk.TopType[1] = 0

\* a step that is a call of RebuildTopCache
IsRebuild == cSteps' = cSteps + 1 /\ cOp'.name = "RebuildTopCache"

\* C25: RebuildTopCache leaves Type, Meta, Props, BlockEntity and C as they
\* are, and a call that directly follows another call of it leaves the whole
\* chunk (TopY, TopType and TopValid included) as the first call left it.
C25_RebuildReadOnlyIdempotent ==
  [][IsRebuild =>
       /\ cChunk'.Type = cChunk.Type
       /\ cChunk'.Meta = cChunk.Meta
       /\ cChunk'.Props = cChunk.Props
       /\ cChunk'.BlockEntity = cChunk.BlockEntity
       /\ cChunk'.C = cChunk.C
       /\ cOp.name = "RebuildTopCache" => cChunk' = cChunk]_vars

\* a fresh chunk after SetTypeIdx wrote stone at height 5 of column (0, 0)
\* and RebuildTopCache ran twice
C25_Witness ==
  /\ cSteps = 3
  /\ cOp.name = "RebuildTopCache"
  /\ cPrev = cChunk
  /\ cChunk.TopValid
  /\ cChunk.Type[IdxW(0, 5, 0)] = BlockStone
  /\ cChunk.TopY[0] = 5
  /\ \A i \in VoxIdx : cChunk.Meta[i] = 0
  /\ \A y \in Heights : cChunk.Type[IdxW(1, y, 0)] = BlockAir

\* C26: when several callers find the same stale chunk and run
\* RebuildTopCache on it at the same time under the shared lock, with no
\* writer changing Type meanwhile, a caller that has finished its rebuild
\* has the chunk with TopValid = true and TopY / TopType as one rebuild run
\* alone leaves them, however the column writes of the others interleave
\* and whether or not the others have finished.
C26_RacedRebuildAgrees ==
  \A t \in Threads :
    (pc[t] \in {"L41", "L43"} /\ call[t].rebuilt) =>
      /\ heap[ch[t]].TopValid
      /\ heap[ch[t]] = RebuildTopCache(heap[ch[t]])
      /\ Coherent(heap[ch[t]])

\* two callers found the chunk stale and both ran RebuildTopCache on it
\* while both held the shared lock
C26_Witness ==
  \E t \in Threads, u \in Threads :
    /\ t # u
    /\ ch[t] = ch[u]
    /\ pc[t] = "L41" /\ pc[u] = "L41"
    /\ call[t].flag = "stale" /\ call[u].flag = "stale"
    /\ call[t].rebuilt /\ call[u].rebuilt
    /\ {t, u} \subseteq readers

\* C27: for every wx of the int32 range, negative values included, and
\* each cell size used, the lattice origin of noise2D has
\* x0 <= wx < x0 + cell, so that (wx - x0) / cell lies in [0, 1); the same
\* for wz and z0.
C27_CellSurroundsPoint ==
  noiseOut # << >> =>
    /\ noiseOut[3] <= nwx /\ nwx < noiseOut[3] + noiseOut[1]
    /\ noiseOut[4] <= nwz /\ nwz < noiseOut[4] + noiseOut[1]

\* column (x, z) of height h >= seaLevel: no water, and at every height
\* the type pass 1 writes there
ColumnDry(type, x, z, h, base) ==
  h >= seaLevel =>
    \A y \in Heights :
      /\ type[IdxW(x, y, z)] # BlockWater
      /\ type[IdxW(x, y, z)] = TerrainType(h, AddI32(base, y))

\* C28: a generated column whose terrain height is at or above seaLevel
\* holds no water voxel, and its types are those of the terrain pass.
C28_DryColumnUntouched ==
  \A i \in 1..Len(gLog) : \A x \in WinX, z \in WinZ :
    ColumnDry(gLog[i].chunk.Type, x, z, HeightOf(gLog[i], x, z), BaseY(gLog[i].coord))

\* a generated chunk at Y = 0 with a column at or above sea level: grass
\* at its height, air right above it
C28_Witness ==
  \E i \in 1..Len(gLog) : \E x \in WinX, z \in WinZ :
    /\ gLog[i].coord.Y = 0
    /\ HeightOf(gLog[i], x, z) >= seaLevel
    /\ gLog[i].chunk.Type[IdxW(x, HeightOf(gLog[i], x, z), z)] = BlockGrass
    /\ gLog[i].chunk.Type[IdxW(x, HeightOf(gLog[i], x, z) + 1, z)] = BlockAir

\* C29: SetMetaIdx(idx, m) changes Meta[idx] and nothing else (Type, the
\* other entries of Meta, TopY, TopType and TopValid stay as they were),
\* and SetTypeIdx(idx, t) leaves the whole Meta array as it was.
C29_MetaTypeIndependent ==
  /\ cOp.name = "SetMetaIdx" =>
       /\ cChunk.Meta[cOp.idx] = cOp.m
       /\ \A i \in VoxIdx \ {cOp.idx} : cChunk.Meta[i] = cPrev.Meta[i]
       /\ cChunk.Type = cPrev.Type
       /\ cChunk.TopY = cPrev.TopY
       /\ cChunk.TopType = cPrev.TopType
       /\ cChunk.TopValid = cPrev.TopValid
  /\ cOp.name = "SetTypeIdx" => cChunk.Meta = cPrev.Meta

\* SetMetaIdx wrote the metadata of a voxel of a chunk whose cache was
\* valid, and the cache is still valid
C29_Witness ==
  /\ cOp.name = "SetMetaIdx"
  /\ cPrev.TopValid
  /\ cPrev.Meta[cOp.idx] # cOp.m
  /\ cChunk.Meta[cOp.idx] = cOp.m
  /\ cChunk.TopValid

\* the packed positions of the voxels of a chunk
InRangePacked == { Pack(x, y, z) : x \in 0..(CW - 1), y \in 0..(CH - 1), z \in 0..(CD - 1) }

\* C30: Pack (and Idx) applied to a local coordinate with an axis outside
\* 0..31 does not return the packed position of a voxel of the chunk.
C30_OutOfRangeNotAccepted ==
  (packed # -1 /\ ~(px \in 0..(CW - 1) /\ py \in 0..(CH - 1) /\ pz \in 0..(CD - 1)))
    => /\ packed \notin InRangePacked
       /\ Idx(px, py, pz) \notin InRangePacked

\* C31: after Set(p, t, m), Get(p) returns (t, m), Type[q] and Meta[q] are
\* as before for every q # p, and TopY and TopType are as before.
C31_SetThenGet ==
  cOp.name = "Set" =>
    /\ Get(cChunk, cOp.p) = << cOp.t, cOp.m >>
    /\ \A q \in VoxIdx \ {cOp.p} :
         cChunk.Type[q] = cPrev.Type[q] /\ cChunk.Meta[q] = cPrev.Meta[q]
    /\ cChunk.TopY = cPrev.TopY
    /\ cChunk.TopType = cPrev.TopType

\* Set turned the surface voxel of column (0, 0) of the generated chunk
\* into air with metadata 7: Get returns that, and the cache still names
\* height 16 and grass
C31_Witness ==
  /\ cOp.name = "Set"
  /\ cOp.p = Pack(0, 16, 0)
  /\ cPrev.Type[cOp.p] = BlockGrass /\ cPrev.Meta[cOp.p] = 0
  /\ Get(cChunk, cOp.p) = << BlockAir, 7 >>
  /\ cChunk.TopY[0] = 16 /\ cChunk.TopType[0] = BlockGrass

\* a thread that is not inside the sections of World.mu holds no lock
\* and awaits none
ReturnsUnlocked ==
  \A t \in Threads :
    pc[t] \in {"L43", "L54", "idle"} => (t \notin readers /\ writer # t /\ t \notin waiting)

\* C32: under a fair scheduler and a fair RWMutex every GetOrCreateChunk
\* call returns, whatever mix of hits, rebuilds of stale chunks and misses
\* the callers run, and the caller holds neither the shared nor the
\* exclusive lock when it returns.
C32_EveryCallReturns ==
  /\ [] ReturnsUnlocked
  /\ \A t \in Threads : InCall(t) ~> (pc[t] = "idle")

\* one caller waits in Lock for the other, which rebuilds a stale chunk
\* under the shared lock
C32_Witness ==
  \E t \in Threads, u \in Threads :
    /\ pc[t] = "L47w" /\ t \in waiting
    /\ pc[u] = "L40" /\ u \in readers /\ call[u].flag = "stale"

\* C33: in the surface snapshot /api/chunk serves for a generated chunk,
\* at any chunk coordinate, no column has TopType = 0 (air).
C33_NoAirOnSurface ==
  nreq > 0 =>
    \A x \in WinX, z \in WinZ : respBody.bytes[CW * CD + x + 32 * z] # BlockAir

\* the top cache of column (x, z) of height h in a chunk at Y = 0
TopAtGround(c, x, z, h) ==
  /\ c.TopY[ColOf(x, z)] = (IF h < 12 THEN 12 ELSE h)
  /\ c.TopType[ColOf(x, z)] = (IF h < 12 THEN BlockWater ELSE BlockGrass)
  /\ c.TopType[ColOf(x, z)] \notin {BlockDirt, BlockStone}

\* C34: in a chunk generated at coord.Y = 0, a column of terrain height h
\* has TopY = max(h, 12) and TopType water if h < 12, grass otherwise; dirt
\* and stone never appear in its top cache.
C34_GroundChunkSurface ==
  \A i \in 1..Len(gLog) :
    gLog[i].coord.Y = 0 =>
      \A x \in WinX, z \in WinZ :
        TopAtGround(gLog[i].chunk, x, z, HeightOf(gLog[i], x, z))

\* two chunks generated at Y = 0: one with a column under water, one with
\* a column of grass above sea level
C34_Witness ==
  \E i \in 1..Len(gLog), j \in 1..Len(gLog) : \E x \in WinX, z \in WinZ :
    /\ gLog[i].coord.Y = 0 /\ gLog[j].coord.Y = 0
    /\ HeightOf(gLog[i], x, z) < 12
    /\ gLog[i].chunk.TopY[ColOf(x, z)] = 12
    /\ gLog[i].chunk.TopType[ColOf(x, z)] = BlockWater
    /\ HeightOf(gLog[j], x, z) > 12
    /\ gLog[j].chunk.TopY[ColOf(x, z)] = HeightOf(gLog[j], x, z)
    /\ gLog[j].chunk.TopType[ColOf(x, z)] = BlockGrass

\* the type codes
TypeCodes == {0, 1, 2, 3, 4}

\* C35: a chunk produced by GenerateChunk holds only the type codes 0..4 in
\* Type and TopType, has every Meta entry 0, and has no Props and no
\* BlockEntity entries.
C35_GeneratedWellFormed ==
  \A i \in 1..Len(gLog) :
    /\ \A v \in VoxIdx : gLog[i].chunk.Type[v] \in TypeCodes
    /\ \A col \in ColIdx : gLog[i].chunk.TopType[col] \in TypeCodes
    /\ \A v \in VoxIdx : gLog[i].chunk.Meta[v] = 0
    /\ gLog[i].chunk.Props = << >>
    /\ gLog[i].chunk.BlockEntity = << >>

\* a generated chunk with a column that holds all five types: stone, dirt,
\* grass, water and air
C35_Witness ==
  \E i \in 1..Len(gLog) : \E x \in WinX, z \in WinZ :
    { gLog[i].chunk.Type[IdxW(x, y, z)] : y \in Heights } = TypeCodes

\* the HTTP requests under way
InFlight == { id \in 1..Len(promises) : promises[id].st \in {"fetching", "reading"} }

\* C36: in the top-down viewer, after any sequence of scheduleWanted,
\* pumpRequests, updateHUD, request completions and request failures, the
\* number of requests in flight is at most MAX_INFLIGHT (24).
C36_InflightCapped ==
  /\ Cardinality(InFlight) <= 24
  /\ Cardinality(DOMAIN inflight) <= 24

\* 24 requests are under way and more chunks wait in the queue, after an
\* earlier request failed and its place was taken
C36_Witness ==
  /\ Cardinality(InFlight) = 24
  /\ requestQueue # << >>
  /\ \E id \in 1..Len(promises) : promises[id].st = "rejected"
  /\ Len(promises) > 24

\* the promises fetchChunk handed out that are neither fulfilled nor rejected
Pending == { id \in 1..Len(promises) : promises[id].st \in {"fetching", "reading", "thrown"} }

\* no two unsettled requests share a key, and the inflight table holds
\* exactly the unsettled requests, each under its key
InflightExact ==
  /\ \A i, j \in Pending : promises[i].k = promises[j].k => i = j
  /\ DOMAIN inflight = { promises[id].k : id \in Pending }
  /\ \A k \in DOMAIN inflight : inflight[k] \in Pending /\ promises[inflight[k]].k = k

\* a step that starts requests starts them for keys that were neither cached
\* nor in flight
StartsOnlyMissing ==
  \A id \in (Len(promises) + 1)..Len(promises') :
    promises'[id].k \notin DOMAIN chunkCache \cup DOMAIN inflight

\* C37: fetchChunk never has two requests in flight for one chunk key and
\* never starts a request for a key that is in chunkCache; a key is in the
\* inflight table exactly from the start of its request until the request
\* has succeeded or failed.
C37_OneRequestPerKey == [] InflightExact /\ [][StartsOnlyMissing]_vars

\* a chunk was requested again after its first request failed, and a call
\* for another, cached chunk was answered from the cache
C37_Witness ==
  /\ \E i, j \in 1..Len(promises) :
       /\ promises[i].k = promises[j].k
       /\ promises[i].st = "rejected"
       /\ promises[j].st \in {"fetching", "reading"}
  /\ lastRet.kind = "entry"

=============================================================================
